---- MODULE Spec2Model ----
(***************************************************************************)
(* A model of jsonextended/edict.py: the flatten / unflatten engine and    *)
(* the dictionary algebra built on it.                                     *)
(*                                                                         *)
(* Python values are modelled as tagged records with one field per kind,   *)
(* so that any two values can be compared:                                 *)
(*   int leaf, str leaf (a sequence of characters), dict (a function from  *)
(*   keys to values), list (a sequence of values).                         *)
(* A dict key is an int or a str.  Python tuples used as values, floats,   *)
(* None and bool are not modelled.                                         *)
(* A dict carries no order of its own: the order in which the code         *)
(* iterates over a dict is the ascending or the descending canonical key   *)
(* order, chosen by the variable iterRev.                                  *)
(***************************************************************************)
EXTENDS Integers, Sequences, FiniteSets, TLC

VARIABLES
    pc,       \* position of the scenario: which call has been made last
    tree,     \* the nested structure in hand (Nothing if none)
    flat,     \* the flat mapping in hand
    src,      \* the nested structure the flat mapping was made from
    call,     \* the arguments of the last call
    ret,      \* the error raised by the last call (NoErr if it returned)
    heap,     \* the mutable objects (dicts and lists) of a merge call
    dicts,    \* merge: the references passed as the list `dicts`
    iterRev   \* dict iteration order: FALSE ascending, TRUE descending

vars == <<pc, tree, flat, src, call, ret, heap, dicts, iterRev>>

----------------------------------------------------------------------------
(* Strings: sequences of characters *)

Alphabet == <<"*", ".", "0", "1", "2", "3", "4", "5", "6", "7", "8", "9", "?", "_",
             "a", "b", "i", "l", "p", "s", "t">>

Digits == <<"0", "1", "2", "3", "4", "5", "6", "7", "8", "9">>

CharRank(c) == CHOOSE i \in DOMAIN Alphabet : Alphabet[i] = c

IsDigit(c) == \E i \in DOMAIN Digits : Digits[i] = c

DigitVal(c) == (CHOOSE i \in DOMAIN Digits : Digits[i] = c) - 1

RECURSIVE IntToStr(_)
\* str(i) / '{}'.format(i) of a natural number
IntToStr(n) ==
    IF n < 10 THEN <<Digits[n + 1]>>
    ELSE IntToStr(n \div 10) \o <<Digits[(n % 10) + 1]>>

RECURSIVE DigitsToInt(_)
DigitsToInt(s) ==
    IF s = <<>> THEN 0
    ELSE 10 * DigitsToInt(SubSeq(s, 1, Len(s) - 1)) + DigitVal(s[Len(s)])

\* int(s): -1 stands for the ValueError of a string that is no numeral
StrToInt(s) ==
    IF s # <<>> /\ \A i \in DOMAIN s : IsDigit(s[i]) THEN DigitsToInt(s) ELSE -1

StartsWith(s, prefix) ==
    Len(prefix) <= Len(s) /\ SubSeq(s, 1, Len(prefix)) = prefix

RECURSIVE StrRemove(_, _)
\* s.replace(old, ''): every non-overlapping occurrence of old, left to right
StrRemove(s, old) ==
    IF old = <<>> \/ s = <<>> THEN s
    ELSE IF StartsWith(s, old) THEN StrRemove(SubSeq(s, Len(old) + 1, Len(s)), old)
    ELSE <<s[1]>> \o StrRemove(Tail(s), old)

RECURSIVE StrLess(_, _)
StrLess(a, b) ==
    IF a = <<>> THEN b # <<>>
    ELSE IF b = <<>> THEN FALSE
    ELSE IF a[1] = b[1] THEN StrLess(Tail(a), Tail(b))
    ELSE CharRank(a[1]) < CharRank(b[1])

Reverse(q) == [i \in 1..Len(q) |-> q[Len(q) + 1 - i]]

----------------------------------------------------------------------------
(* Keys and values *)

KS(s) == [k |-> "str", n |-> 0, s |-> s]
KI(n) == [k |-> "int", n |-> n, s |-> <<>>]

\* str(key)
KeyStr(key) == IF key.k = "str" THEN key.s ELSE IntToStr(key.n)

EmptyMap == [x \in {} |-> 0]

I(n) == [t |-> "int", i |-> n, s |-> <<>>, d |-> EmptyMap, l |-> <<>>]
S(s) == [t |-> "str", i |-> 0, s |-> s, d |-> EmptyMap, l |-> <<>>]
D(f) == [t |-> "dict", i |-> 0, s |-> <<>>, d |-> f, l |-> <<>>]
L(q) == [t |-> "list", i |-> 0, s |-> <<>>, d |-> EmptyMap, l |-> q]
Nothing == [t |-> "none", i |-> 0, s |-> <<>>, d |-> EmptyMap, l |-> <<>>]

\* an optional string argument: None, or the string
None == [some |-> FALSE, s |-> <<>>]
Some(s) == [some |-> TRUE, s |-> s]

\* the value a key stands for when it is met as an element (hash / ==)
KeyAsValue(key) == IF key.k = "str" THEN S(key.s) ELSE I(key.n)

KeyLess(a, b) ==
    IF a.k # b.k THEN a.k = "int"
    ELSE IF a.k = "int" THEN a.n < b.n
    ELSE StrLess(a.s, b.s)

RECURSIVE SortedKeys(_)
SortedKeys(ks) ==
    IF ks = {} THEN <<>>
    ELSE LET m == CHOOSE x \in ks : \A y \in ks \ {x} : KeyLess(x, y)
         IN <<m>> \o SortedKeys(ks \ {m})

\* the order in which `for k in d` / d.items() visits the keys of a dict
IterKeys(f) ==
    IF iterRev THEN Reverse(SortedKeys(DOMAIN f)) ELSE SortedKeys(DOMAIN f)

\* d[key] = value on a dict
DictSet(f, key, value) == [x \in (DOMAIN f) \cup {key} |-> IF x = key THEN value ELSE f[x]]

----------------------------------------------------------------------------
(* Errors *)

\* type: the exception class; path, vals: the path and the two values of an
\* unflatten conflict (the message sorts the two); dotted, old, new: the
\* dotted path and the two values of a merge conflict
NoErr == [type |-> "none", path |-> <<>>, vals |-> {},
          dotted |-> <<>>, old |-> Nothing, new |-> Nothing, msg |-> ""]

Raise(type) == [NoErr EXCEPT !.type = type]

\* the outcome of a call: the error raised, or the value returned
Ok(v) == [err |-> NoErr, val |-> v]
Fail(e) == [err |-> e, val |-> Nothing]
Failed(r) == r.err.type # "none"

\* a statement after another: the exception of the first propagates, else the
\* rest runs with the value the first gave
Bind(r, rest(_)) == IF Failed(r) THEN r ELSE rest(r.val)

\* try: r / except: raise e
Rescue(r, e) == IF Failed(r) THEN Fail(e) ELSE r

----------------------------------------------------------------------------
(* Predicates *)

is_iter_non_string(obj) == obj.t = "list"

is_dict_like(obj) == obj.t = "dict"

is_list_of_dict_like(obj) ==
    /\ obj.t = "list"
    /\ Len(obj.l) # 0
    /\ \A i \in DOMAIN obj.l : is_dict_like(obj.l[i])

----------------------------------------------------------------------------
(* flatten *)

\* {'{0}{1}'.format(prefix, i): v for i, v in enumerate(value)}
enumerate_dict(prefix, q) ==
    LET keyOf(i) == KS(prefix \o IntToStr(i - 1))
    IN D([x \in {keyOf(i) : i \in DOMAIN q} |->
            q[CHOOSE i \in DOMAIN q : keyOf(i) = x]])

RECURSIVE dict_items(_)
\* dict(items).items(): one pair per key, holding the value of the key's last
\* pair, in the order of the keys' first pairs
dict_items(items) ==
    IF items = <<>> THEN <<>>
    ELSE LET n == Len(items)
             last == items[n]
             rest == dict_items(SubSeq(items, 1, n - 1))
         IN IF \E i \in DOMAIN rest : rest[i][1] = last[1]
            THEN [i \in DOMAIN rest |->
                    IF rest[i][1] = last[1] THEN last ELSE rest[i]]
            ELSE Append(rest, last)

\* the dict of a sequence of pairs with distinct keys
dict_of(items) ==
    [x \in {items[i][1] : i \in DOMAIN items} |->
        items[CHOOSE i \in DOMAIN items : items[i][1] = x][2]]

\* the items of the nested dict under their own keys
prefix_items_unprefixed(key, sub, key_as_tuple, sep) == sub

\* [(key + k, v) for k, v in sub.items()], or
\* [(str(key) + sep + k, v) for k, v in sub.items()]
prefix_items(key, sub, key_as_tuple, sep) ==
    IF Failed(sub) THEN sub
    ELSE IF key_as_tuple
    THEN Ok([i \in DOMAIN sub.val |-> <<key \o sub.val[i][1], sub.val[i][2]>>])
    ELSE IF \E i \in DOMAIN sub.val : sub.val[i][1].k # "str"
    THEN Fail(Raise("TypeError"))      \* str + int
    ELSE Ok([i \in DOMAIN sub.val |->
                <<KS(KeyStr(key) \o sep \o sub.val[i][1].s), sub.val[i][2]>>])

RECURSIVE flatten_items(_, _, _, _, _)

expand(key, value, key_as_tuple, sep, list_of_dicts, all_iters) ==
    IF is_dict_like(value)
    THEN prefix_items(key,
            flatten_items(value, key_as_tuple, sep, list_of_dicts, all_iters),
            key_as_tuple, sep)
    ELSE IF is_iter_non_string(value) /\ all_iters.some
    THEN prefix_items(key,
            flatten_items(enumerate_dict(all_iters.s, value.l),
                          key_as_tuple, sep, list_of_dicts, all_iters),
            key_as_tuple, sep)
    ELSE IF is_list_of_dict_like(value) /\ list_of_dicts.some
    THEN prefix_items(key,
            flatten_items(enumerate_dict(list_of_dicts.s, value.l),
                          key_as_tuple, sep, list_of_dicts, all_iters),
            key_as_tuple, sep)
    ELSE Ok(<< <<key, value>> >>)

RECURSIVE expand_all(_, _, _, _, _, _)
\* [item for k, v in d.items() for item in expand(k, v)], ks the keys still to visit
expand_all(ks, f, key_as_tuple, sep, list_of_dicts, all_iters) ==
    IF ks = <<>> THEN Ok(<<>>)
    ELSE LET k == ks[1]
             first == expand(IF key_as_tuple THEN <<k>> ELSE k, f[k],
                             key_as_tuple, sep, list_of_dicts, all_iters)
             rest == expand_all(Tail(ks), f, key_as_tuple, sep, list_of_dicts, all_iters)
         IN IF Failed(first) THEN first
            ELSE IF Failed(rest) THEN rest
            ELSE Ok(first.val \o rest.val)

\* flatten(d, ...): the (key, value) pairs of the returned dict, in its order
flatten_items(d, key_as_tuple, sep, list_of_dicts, all_iters) ==
    LET d1 == IF is_iter_non_string(d) /\ all_iters.some
              THEN enumerate_dict(all_iters.s, d.l)
              ELSE IF is_list_of_dict_like(d) /\ list_of_dicts.some
              THEN enumerate_dict(list_of_dicts.s, d.l)
              ELSE d
    IN IF ~is_dict_like(d1) THEN Fail(Raise("TypeError"))
       ELSE LET items == expand_all(IterKeys(d1.d), d1.d, key_as_tuple, sep,
                                    list_of_dicts, all_iters)
            IN IF Failed(items) THEN items ELSE Ok(dict_items(items.val))

\* flatten(d, ...): the returned dict, a function from path (or string) to value
flatten(d, key_as_tuple, sep, list_of_dicts, all_iters) ==
    LET r == flatten_items(d, key_as_tuple, sep, list_of_dicts, all_iters)
    IN IF Failed(r) THEN r ELSE Ok(dict_of(r.val))

----------------------------------------------------------------------------
(* The container operations merge relies on, for every kind of value *)

IsHashable(v) == v.t \in {"int", "str"}

\* the key a hashable value is
ValueAsKey(v) == IF v.t = "str" THEN KS(v.s) ELSE KI(v.i)

\* str(v) of an int or a str
ValueStr(v) == IF v.t = "str" THEN v.s ELSE IntToStr(v.i)

IsSubstring(x, s) ==
    \E i \in 0..(Len(s) - Len(x)) : SubSeq(s, i + 1, i + Len(x)) = x

\* `for key in b`: the values the loop visits, in order
IterOf(b) ==
    CASE b.t = "dict" -> Ok([i \in DOMAIN IterKeys(b.d) |-> KeyAsValue(IterKeys(b.d)[i])])
      [] b.t = "list" -> Ok(b.l)
      [] b.t = "str"  -> Ok([i \in DOMAIN b.s |-> S(<<b.s[i]>>)])
      [] OTHER        -> Fail(Raise("TypeError"))

\* `key in a`
Contains(a, key) ==
    CASE a.t = "dict" -> IF IsHashable(key) THEN Ok(ValueAsKey(key) \in DOMAIN a.d)
                         ELSE Fail(Raise("TypeError"))
      [] a.t = "list" -> Ok(\E i \in DOMAIN a.l : a.l[i] = key)
      [] a.t = "str"  -> IF key.t = "str" THEN Ok(IsSubstring(key.s, a.s))
                         ELSE Fail(Raise("TypeError"))
      [] OTHER        -> Fail(Raise("TypeError"))

\* `x[key]`
GetItem(x, key) ==
    CASE x.t = "dict" -> IF ~IsHashable(key) THEN Fail(Raise("TypeError"))
                         ELSE IF ValueAsKey(key) \in DOMAIN x.d THEN Ok(x.d[ValueAsKey(key)])
                         ELSE Fail(Raise("KeyError"))
      [] x.t = "list" -> IF key.t # "int" THEN Fail(Raise("TypeError"))
                         ELSE IF key.i < Len(x.l) THEN Ok(x.l[key.i + 1])
                         ELSE Fail(Raise("IndexError"))
      [] x.t = "str"  -> IF key.t # "int" THEN Fail(Raise("TypeError"))
                         ELSE IF key.i < Len(x.s) THEN Ok(S(<<x.s[key.i + 1]>>))
                         ELSE Fail(Raise("IndexError"))
      [] OTHER        -> Fail(Raise("TypeError"))

\* `a[key] = value`
SetItem(a, key, value) ==
    CASE a.t = "dict" -> IF IsHashable(key) THEN Ok(D(DictSet(a.d, ValueAsKey(key), value)))
                         ELSE Fail(Raise("TypeError"))
      [] a.t = "list" -> IF key.t # "int" THEN Fail(Raise("TypeError"))
                         ELSE IF key.i < Len(a.l) THEN Ok(L([a.l EXCEPT ![key.i + 1] = value]))
                         ELSE Fail(Raise("IndexError"))
      [] OTHER        -> Fail(Raise("TypeError"))

RECURSIVE Join(_, _)
\* sep.join(parts)
Join(parts, sep) ==
    IF parts = <<>> THEN <<>>
    ELSE IF Len(parts) = 1 THEN parts[1]
    ELSE parts[1] \o sep \o Join(Tail(parts), sep)

----------------------------------------------------------------------------
(* merge, on values *)

RECURSIVE single_merge(_, _, _, _, _)

\* one round of the loop `for key in b` of single_merge
merge_key(a, b, key, overwrite, append, error_path) ==
    Bind(Contains(a, key), LAMBDA isin :
      IF ~isin
      THEN Bind(GetItem(b, key), LAMBDA bk : SetItem(a, key, bk))
      ELSE Bind(GetItem(a, key), LAMBDA ak :
           Bind(GetItem(b, key), LAMBDA bk :
             IF is_dict_like(ak) /\ is_dict_like(bk)
             THEN Bind(single_merge(ak, bk, overwrite, append,
                                    Append(error_path, ValueStr(key))),
                       LAMBDA sub : SetItem(a, key, sub))
             ELSE IF ak.t = "list" /\ bk.t = "list" /\ append
             THEN SetItem(a, key, L(ak.l \o bk.l))
             ELSE IF ak = bk THEN Ok(a)
             ELSE IF overwrite THEN SetItem(a, key, bk)
             ELSE Fail([type |-> "ValueError", path |-> <<>>, vals |-> {},
                        dotted |-> Join(Append(error_path, ValueStr(key)), <<".">>),
                        old |-> ak, new |-> bk, msg |-> ""]))))

RECURSIVE merge_keys(_, _, _, _, _, _)
\* the loop `for key in b` over the keys still to visit
merge_keys(a, b, ks, overwrite, append, error_path) ==
    IF ks = <<>> THEN Ok(a)
    ELSE Bind(merge_key(a, b, ks[1], overwrite, append, error_path),
              LAMBDA r : merge_keys(r, b, Tail(ks), overwrite, append, error_path))

\* single_merge(a, b): a after b is merged into it
single_merge(a, b, overwrite, append, error_path) ==
    Bind(IterOf(b), LAMBDA ks : merge_keys(a, b, ks, overwrite, append, error_path))

RECURSIVE merge_fold(_, _, _, _)
\* reduce(single_merge, [outdict] + rest)
merge_fold(outdict, rest, overwrite, append) ==
    IF rest = <<>> THEN Ok(outdict)
    ELSE Bind(single_merge(outdict, rest[1], overwrite, append, <<>>),
              LAMBDA r : merge_fold(r, Tail(rest), overwrite, append))

\* merge(dicts, overwrite, append): the returned value
merge(ds, overwrite, append) ==
    IF ds = <<>> THEN Fail(Raise("IndexError"))
    ELSE merge_fold(ds[1], Tail(ds), overwrite, append)

----------------------------------------------------------------------------
(* merge, on objects: dicts and lists are objects of the heap, held by      *)
(* reference, so that `a[key] = b[key]` makes a and b share an object       *)

Ref(n) == [t |-> "ref", i |-> n, s |-> <<>>, d |-> EmptyMap, l |-> <<>>]

RECURSIVE Alloc(_, _)
RECURSIVE AllocDict(_, _, _, _)
RECURSIVE AllocList(_, _, _)

\* the objects of a value added to the heap: <<heap, reference or leaf>>
Alloc(h, v) ==
    IF v.t = "dict"
    THEN LET r == AllocDict(h, v.d, SortedKeys(DOMAIN v.d), EmptyMap)
         IN <<Append(r[1], D(r[2])), Ref(Len(r[1]) + 1)>>
    ELSE IF v.t = "list"
    THEN LET r == AllocList(h, v.l, <<>>)
         IN <<Append(r[1], L(r[2])), Ref(Len(r[1]) + 1)>>
    ELSE <<h, v>>

AllocDict(h, f, ks, acc) ==
    IF ks = <<>> THEN <<h, acc>>
    ELSE LET r == Alloc(h, f[ks[1]])
         IN AllocDict(r[1], f, Tail(ks), DictSet(acc, ks[1], r[2]))

AllocList(h, q, acc) ==
    IF q = <<>> THEN <<h, acc>>
    ELSE LET r == Alloc(h, q[1])
         IN AllocList(r[1], Tail(q), Append(acc, r[2]))

RECURSIVE Deref(_, _)
\* the value a reference or leaf stands for
Deref(h, c) ==
    IF c.t # "ref" THEN c
    ELSE IF h[c.i].t = "dict"
    THEN D([x \in DOMAIN h[c.i].d |-> Deref(h, h[c.i].d[x])])
    ELSE L([i \in DOMAIN h[c.i].l |-> Deref(h, h[c.i].l[i])])

\* copy.deepcopy(c)
deepcopy(h, c) == Alloc(h, Deref(h, c))

\* the heap after a call, with the error the call raised if it raised one
Done(e, h) == [err |-> e, val |-> h]

\* is_dict_like(a[key]) and is_dict_like(b[key])
both_dict_like(h, ak, bk) ==
    ak.t = "ref" /\ bk.t = "ref" /\ h[ak.i].t = "dict" /\ h[bk.i].t = "dict"

\* isinstance(a[key], list) and isinstance(b[key], list)
both_lists(h, ak, bk) ==
    ak.t = "ref" /\ bk.t = "ref" /\ h[ak.i].t = "list" /\ h[bk.i].t = "list"

\* no two values taken to be equal
same_value_never(h, ak, bk) == FALSE

\* any two values taken to be equal
same_value_always(h, ak, bk) == TRUE

\* a[key] == b[key]
same_value(h, ak, bk) == Deref(h, ak) = Deref(h, bk)

\* the item left as it is
set_item_skipped(h, a, key, c) == h

\* a[key] = c, a a dict
set_item(h, a, key, c) == [h EXCEPT ![a.i] = D(DictSet(h[a.i].d, key, c))]

RECURSIVE single_merge_h(_, _, _, _, _, _)

\* one round of the loop `for key in b` of single_merge, a and b dicts
merge_key_h(h, a, b, key, overwrite, append, error_path) ==
    LET ak == h[a.i].d[key]
        bk == h[b.i].d[key]
    IN  IF key \notin DOMAIN h[a.i].d THEN Done(NoErr, set_item(h, a, key, bk))
        ELSE IF both_dict_like(h, ak, bk)
        THEN single_merge_h(h, ak, bk, overwrite, append,
                            Append(error_path, KeyStr(key)))
        ELSE IF both_lists(h, ak, bk) /\ append
        THEN Done(NoErr, [h EXCEPT ![ak.i] = L(h[ak.i].l \o h[bk.i].l)])
        ELSE IF same_value(h, ak, bk) THEN Done(NoErr, h)
        ELSE IF overwrite THEN Done(NoErr, set_item(h, a, key, bk))
        ELSE Done([type |-> "ValueError", path |-> <<>>, vals |-> {},
                   dotted |-> Join(Append(error_path, KeyStr(key)), <<".">>),
                   old |-> Deref(h, ak), new |-> Deref(h, bk), msg |-> ""], h)

RECURSIVE merge_keys_h(_, _, _, _, _, _, _)
\* the loop `for key in b` over the keys still to visit
merge_keys_h(h, a, b, ks, overwrite, append, error_path) ==
    IF ks = <<>> THEN Done(NoErr, h)
    ELSE LET r == merge_key_h(h, a, b, ks[1], overwrite, append, error_path)
         IN IF Failed(r) THEN r
            ELSE merge_keys_h(r.val, a, b, Tail(ks), overwrite, append, error_path)

\* single_merge(a, b) of two dicts: the heap after b is merged into a
single_merge_h(h, a, b, overwrite, append, error_path) ==
    merge_keys_h(h, a, b, IterKeys(h[b.i].d), overwrite, append, error_path)

----------------------------------------------------------------------------
(* unflatten *)

\* any string key taken to start with the prefix
_startswith_any_str(key, prefix) == key.k = "str"

_startswith(key, prefix) ==
    IF key.k # "str" THEN FALSE ELSE StartsWith(key.s, prefix)

\* int(x.replace(prefix, '')), -1 for its ValueError
list_index(key, prefix) == StrToInt(StrRemove(key.s, prefix))

\* the keys left in the order the dict gives them
sorted_unsorted(ks, prefix) == ks

RECURSIVE sorted_by_index(_, _)
\* sorted(keys, key=lambda x: int(x.replace(prefix, ''))): a stable sort
sorted_by_index(ks, prefix) ==
    IF ks = <<>> THEN <<>>
    ELSE LET n == Len(ks)
             last == ks[n]
             rest == sorted_by_index(SubSeq(ks, 1, n - 1), prefix)
             before == {i \in DOMAIN rest :
                          list_index(rest[i], prefix) <= list_index(last, prefix)}
         IN [i \in 1..n |->
                IF i <= Cardinality(before) THEN rest[i]
                ELSE IF i = Cardinality(before) + 1 THEN last
                ELSE rest[i - 1]]

RECURSIVE _recreate_lists(_, _)
_recreate_lists(d, prefix) ==
    IF ~is_dict_like(d) THEN Ok(d)
    ELSE LET sub == [x \in DOMAIN d.d |-> _recreate_lists(d.d[x], prefix)]
             ks == sorted_by_index(IterKeys(d.d), prefix)
         IN IF \A x \in DOMAIN d.d : _startswith(x, prefix)
            THEN IF \E x \in DOMAIN d.d : list_index(x, prefix) < 0
                 THEN Fail(Raise("ValueError"))
                 ELSE IF \E x \in DOMAIN d.d : Failed(sub[x])
                 THEN Fail(Raise("ValueError"))
                 ELSE Ok(L([i \in DOMAIN ks |-> sub[ks[i]].val]))
            ELSE IF \E x \in DOMAIN d.d : Failed(sub[x])
                 THEN Fail(Raise("ValueError"))
                 ELSE Ok(D([x \in DOMAIN d.d |-> sub[x].val]))

RECURSIVE Split(_, _)
\* s.split(delim), delim one character
Split(s, delim) ==
    IF \A i \in DOMAIN s : <<s[i]>> # delim THEN <<s>>
    ELSE LET i == CHOOSE j \in DOMAIN s :
                    <<s[j]>> = delim /\ \A h \in 1..(j - 1) : <<s[h]>> # delim
         IN <<SubSeq(s, 1, i - 1)>> \o Split(SubSeq(s, i + 1, Len(s)), delim)

RECURSIVE place(_, _, _, _)
\* The body of unflatten's loop for one key: d is the node reached so far,
\* rest the parts still to walk, parts the whole key.  Gives the node as it
\* is after the value is stored.
place(d, rest, parts, value) ==
    LET part == rest[1]
    IN  IF Len(rest) > 1
        \* for part in parts[:-1]: if part not in d: d[part] = {}; d = d[part]
        THEN Bind(Contains(d, KeyAsValue(part)), LAMBDA isin :
             Bind(IF isin THEN Ok(d) ELSE SetItem(d, KeyAsValue(part), D(EmptyMap)),
                  LAMBDA made :
             Bind(GetItem(made, KeyAsValue(part)), LAMBDA child :
             Bind(place(child, Tail(rest), parts, value), LAMBDA below :
             SetItem(made, KeyAsValue(part), below)))))
        ELSE IF ~is_dict_like(d)
        THEN Fail([NoErr EXCEPT !.type = "KeyError",
                                !.path = SubSeq(parts, 1, Len(parts) - 1),
                                !.vals = {d, D(part :> value)}])
        ELSE IF part \in DOMAIN d.d
        THEN Bind(Rescue(merge(<<d.d[part], value>>, FALSE, FALSE),
                         [NoErr EXCEPT !.type = "KeyError", !.path = parts,
                                       !.vals = {value, d.d[part]}]),
                  LAMBDA merged : Ok(D(DictSet(d.d, part, merged))))
        ELSE Ok(D(DictSet(d.d, part, value)))

\* the parts of a key of the flat mapping, or the ValueError of a key of the
\* wrong type (tuple keys are sequences of keys, string keys are keys)
key_parts(key, key_as_tuple, delim) ==
    IF key_as_tuple THEN Ok(key)
    ELSE IF key.k # "str" THEN Fail(Raise("ValueError"))
    ELSE Ok([i \in 1..Len(Split(key.s, delim)) |-> KS(Split(key.s, delim)[i])])

RECURSIVE unflatten_loop(_, _, _, _, _)
\* `for key, value in d.items()`, order the keys still to visit
unflatten_loop(result, f, order, key_as_tuple, delim) ==
    IF order = <<>> THEN Ok(result)
    ELSE Bind(key_parts(order[1], key_as_tuple, delim), LAMBDA parts :
         Bind(place(result, parts, parts, f[order[1]]), LAMBDA r :
         unflatten_loop(r, f, Tail(order), key_as_tuple, delim)))

\* the key unflatten pops before its loop
root_key(key_as_tuple) == IF key_as_tuple THEN <<>> ELSE KS(<<>>)

\* unflatten(d, key_as_tuple, delim, list_of_dicts), the items of d visited
\* in the given order (a sequence of the keys of d other than the root key)
unflatten(f, key_as_tuple, delim, list_of_dicts, order) ==
    IF DOMAIN f = {} THEN Ok(D(EmptyMap))
    ELSE LET rk == root_key(key_as_tuple)
             result == IF rk \in DOMAIN f THEN f[rk] ELSE D(EmptyMap)
         IN Bind(unflatten_loop(result, f, order, key_as_tuple, delim), LAMBDA r :
                 IF list_of_dicts.some THEN _recreate_lists(r, list_of_dicts.s)
                 ELSE Ok(r))

----------------------------------------------------------------------------
(* Inputs *)

\* the list prefix and the separator the calls are made with
Prefix == <<"p">>
Sep == <<".">>

Ka == KS(<<"a">>)
Kp0 == KS(<<"p", "0">>)
Kp1 == KS(<<"p", "1">>)
Kpa == KS(<<"p", "a">>)
Kdot == KS(<<"a", ".", "a">>)
K1 == KI(1)

\* the keys of the nested structures given to flatten
TreeKeys == {Ka, Kp0, Kdot, K1}

Leaves == {I(1), I(2)}

\* largest number of dict entries and list elements of an input structure
MaxSize == 3

RECURSIVE ValuesOfSize(_)
RECURSIVE DictsOfSize(_)
RECURSIVE ListsOfSize(_)

\* the dicts with at most n entries and elements in all, nested ones included
DictsOfSize(n) ==
    {D(EmptyMap)} \cup
    UNION {UNION {{D(DictSet(m.d, x, v)) : x \in TreeKeys \ DOMAIN m.d,
                                           v \in ValuesOfSize(j)}
                  : m \in DictsOfSize(n - 1 - j)}
           : j \in 0..(n - 1)}

ListsOfSize(n) ==
    {L(<<>>)} \cup
    UNION {{L(<<v>> \o q.l) : v \in ValuesOfSize(j), q \in ListsOfSize(n - 1 - j)}
           : j \in 0..(n - 1)}

ValuesOfSize(n) == Leaves \cup DictsOfSize(n) \cup ListsOfSize(n)

\* what flatten is given: a dict or a list, of at most n entries and elements
TreeInputs(n) == DictsOfSize(n) \cup ListsOfSize(n)

\* the three sequence prefix modes: (list_of_dicts, all_iters)
PrefixModes == {<<None, None>>, <<Some(Prefix), None>>, <<None, Some(Prefix)>>}

RECURSIVE Orders(_)
\* every order in which the items of a dict with these keys may be visited
Orders(ks) ==
    IF ks = {} THEN {<<>>}
    ELSE UNION {{<<x>> \o q : q \in Orders(ks \ {x})} : x \in ks}

\* an optional number: None, or the number
NoNumber == [some |-> FALSE, n |-> 0]
Number(n) == [some |-> TRUE, n |-> n]

\* an optional key: None, or the key
NoKey == [some |-> FALSE, key |-> KI(0)]
Key(key) == [some |-> TRUE, key |-> key]

\* an optional plugin category: None, or its name
NoCategory == [some |-> FALSE, s |-> ""]
Category(c) == [some |-> TRUE, s |-> c]

NoCall == [fn |-> "none", key_as_tuple |-> TRUE, list_of_dicts |-> None,
           all_iters |-> None, unlist |-> None, order |-> <<>>,
           overwrite |-> FALSE, append |-> FALSE, outdict |-> Nothing, next |-> 0,
           keys |-> <<>>, use_wildcards |-> FALSE, vals |-> <<>>,
           error |-> NoNumber, keep_siblings |-> FALSE, keymap |-> EmptyMap,
           paths |-> <<>>, leaf_key |-> KI(0), new_name |-> NoKey, remove_lkeys |-> TRUE,
           leaf_keys |-> <<>>, check_length |-> TRUE,
           classes |-> <<>>, category |-> NoCategory]

----------------------------------------------------------------------------
(* flatten, then unflatten, of a nested structure *)

Init ==
    /\ pc = "tree"
    /\ tree \in TreeInputs(MaxSize)
    /\ flat = EmptyMap
    /\ src = Nothing
    /\ call = NoCall
    /\ ret = NoErr
    /\ heap = <<>>
    /\ dicts = <<>>
    /\ iterRev \in BOOLEAN

\* flat = flatten(tree, key_as_tuple, sep, list_of_dicts, all_iters)
Flatten(key_as_tuple, mode) ==
    /\ pc = "tree"
    /\ LET r == flatten(tree, key_as_tuple, Sep, mode[1], mode[2])
       IN /\ pc' = IF Failed(r) THEN "failed" ELSE "flattened"
          /\ flat' = IF Failed(r) THEN EmptyMap ELSE r.val
          /\ ret' = r.err
    /\ src' = tree
    /\ tree' = Nothing
    /\ call' = [NoCall EXCEPT !.fn = "flatten", !.key_as_tuple = key_as_tuple,
                              !.list_of_dicts = mode[1], !.all_iters = mode[2]]
    /\ UNCHANGED <<heap, dicts, iterRev>>

\* tree = unflatten(flat, key_as_tuple, delim, list_of_dicts), whose loop
\* visits the items of flat in the given order
Unflatten(list_of_dicts, order) ==
    /\ pc \in {"flat", "flattened"}
    /\ LET r == unflatten(flat, call.key_as_tuple, Sep, list_of_dicts, order)
       IN /\ pc' = IF Failed(r) THEN "failed" ELSE "unflattened"
          /\ tree' = r.val
          /\ ret' = r.err
    /\ call' = [call EXCEPT !.fn = "unflatten", !.unlist = list_of_dicts,
                            !.order = order]
    /\ UNCHANGED <<flat, src, heap, dicts, iterRev>>

Next ==
    \/ \E key_as_tuple \in BOOLEAN, mode \in PrefixModes :
          Flatten(key_as_tuple, mode)
    \/ \E list_of_dicts \in {None, Some(Prefix)},
          order \in Orders(DOMAIN flat \ {root_key(call.key_as_tuple)}) :
          Unflatten(list_of_dicts, order)

Spec == Init /\ [][Next]_vars

----------------------------------------------------------------------------
(* unflatten of an arbitrary flat mapping with tuple keys *)

\* the keys the paths of a flat mapping are made of
FlatKeys == {Ka, Kp0, Kp1, Kpa}

\* the values a flat mapping holds
FlatVals == {I(1), I(2), S(<<>>), D(Ka :> I(1))}

\* longest path and largest number of entries of a flat mapping
MaxPathLen == 3
MaxFlat == 2

RECURSIVE PathsOfLen(_)
PathsOfLen(n) ==
    IF n = 0 THEN {<<>>}
    ELSE {Append(q, x) : q \in PathsOfLen(n - 1), x \in FlatKeys}

FlatPaths == UNION {PathsOfLen(n) : n \in 0..MaxPathLen}

RECURSIVE PathSetsOfSize(_)
\* the sets of n paths
PathSetsOfSize(n) ==
    IF n = 0 THEN {{}}
    ELSE UNION {{qs \cup {q} : q \in FlatPaths \ qs} : qs \in PathSetsOfSize(n - 1)}

\* the flat mappings of at most n entries
FlatInputs(n) == UNION {UNION {[ps -> FlatVals] : ps \in PathSetsOfSize(j)} : j \in 0..n}

FlatInit ==
    /\ pc = "flat"
    /\ flat \in FlatInputs(MaxFlat)
    /\ tree = Nothing
    /\ src = Nothing
    /\ call = NoCall
    /\ ret = NoErr
    /\ heap = <<>>
    /\ dicts = <<>>
    /\ iterRev \in BOOLEAN

FlatNext ==
    \E list_of_dicts \in {None, Some(Prefix)},
       order \in Orders(DOMAIN flat \ {root_key(call.key_as_tuple)}) :
       Unflatten(list_of_dicts, order)

FlatSpec == FlatInit /\ [][FlatNext]_vars

----------------------------------------------------------------------------
(* merge of a list of dicts *)

Kb == KS(<<"b">>)

\* the keys and the leaves of the dicts given to merge
MergeKeys == {Ka, Kb}
MergeLeaves == {I(1), I(2), L(<<I(1)>>)}

\* longest list of dicts, and largest number of entries of all its dicts
MaxDicts == 3
MaxEntries == 4

RECURSIVE MergeDictsOfSize(_)
\* the dicts with at most n entries, nested ones included
MergeDictsOfSize(n) ==
    {D(EmptyMap)} \cup
    UNION {UNION {{D(DictSet(m.d, x, v)) : x \in MergeKeys \ DOMAIN m.d,
                                           v \in MergeLeaves \cup MergeDictsOfSize(j)}
                  : m \in MergeDictsOfSize(n - 1 - j)}
           : j \in 0..(n - 1)}

RECURSIVE Entries(_)
\* the number of entries of a dict, nested ones included
Entries(v) ==
    IF v.t # "dict" \/ DOMAIN v.d = {} THEN 0
    ELSE LET x == CHOOSE y \in DOMAIN v.d : TRUE
         IN 1 + Entries(v.d[x]) + Entries(D([y \in DOMAIN v.d \ {x} |-> v.d[y]]))

MergeDicts == MergeDictsOfSize(MaxEntries)

RECURSIVE DictLists(_, _)
\* the lists of len dicts with at most n entries in all
DictLists(len, n) ==
    IF len = 0 THEN {<<>>}
    ELSE UNION {{<<d>> \o q : q \in DictLists(len - 1, n - Entries(d))}
                : d \in {m \in MergeDicts : Entries(m) <= n}}

\* the lists of two to len dicts with at most n entries in all
MergeInputs(len, n) == UNION {DictLists(j, n) : j \in 2..len}

RECURSIVE AllocAll(_, _, _, _)
\* the dicts of a list as objects: <<heap, references>>; when shared, equal
\* dicts of the list are one object
AllocAll(h, refs, ts, shared) ==
    IF Len(refs) = Len(ts) THEN <<h, refs>>
    ELSE LET i == Len(refs) + 1
             earlier == {j \in 1..(i - 1) : ts[j] = ts[i]}
             r == Alloc(h, ts[i])
         IN IF shared /\ earlier # {}
            THEN AllocAll(h, Append(refs, refs[CHOOSE j \in earlier : TRUE]), ts, shared)
            ELSE AllocAll(r[1], Append(refs, r[2]), ts, shared)

MergeInit ==
    /\ pc = "dicts"
    /\ \E ts \in MergeInputs(MaxDicts, MaxEntries), shared \in BOOLEAN :
          LET objects == AllocAll(<<>>, <<>>, ts, shared)
          IN /\ src = L(ts)
             /\ heap = objects[1]
             /\ dicts = objects[2]
    /\ tree = Nothing
    /\ flat = EmptyMap
    /\ call = NoCall
    /\ ret = NoErr
    /\ iterRev \in BOOLEAN

\* merge(dicts, overwrite, append) is called: outdict = copy.deepcopy(dicts[0])
MergeCall(overwrite, append) ==
    /\ pc = "dicts"
    /\ LET copy == deepcopy(heap, dicts[1])
       IN /\ heap' = copy[1]
          /\ call' = [NoCall EXCEPT !.fn = "merge", !.overwrite = overwrite,
                                    !.append = append, !.outdict = copy[2],
                                    !.next = 2]
    /\ pc' = "reduce"
    /\ UNCHANGED <<tree, flat, src, ret, dicts, iterRev>>

\* one step of reduce(single_merge, [outdict] + dicts[1:]): the next dict is
\* merged into outdict, or single_merge raises
MergeStep ==
    /\ pc = "reduce"
    /\ call.next <= Len(dicts)
    /\ LET r == single_merge_h(heap, call.outdict, dicts[call.next],
                               call.overwrite, call.append, <<>>)
       IN /\ heap' = r.val
          /\ ret' = r.err
          /\ pc' = IF Failed(r) THEN "failed" ELSE "reduce"
    /\ call' = [call EXCEPT !.next = @ + 1]
    /\ UNCHANGED <<tree, flat, src, dicts, iterRev>>

\* return outdict
MergeReturn ==
    /\ pc = "reduce"
    /\ call.next > Len(dicts)
    /\ pc' = "merged"
    /\ tree' = Deref(heap, call.outdict)
    /\ UNCHANGED <<flat, src, call, ret, heap, dicts, iterRev>>

MergeNext ==
    \/ \E overwrite \in BOOLEAN, append \in BOOLEAN : MergeCall(overwrite, append)
    \/ MergeStep
    \/ MergeReturn

MergeSpec == MergeInit /\ [][MergeNext]_vars

----------------------------------------------------------------------------
(* The filtering family: flatten, keep or rewrite some pairs, unflatten *)

\* the prefix the family gives to the keys that stand for list elements
ListPrefix == <<"_", "_", "l", "i", "s", "t", "_", "_">>

\* list_of_dicts = '__list__' if list_of_dicts else None
list_prefix(list_of_dicts) == IF list_of_dicts THEN Some(ListPrefix) ELSE None

RECURSIVE fnmatchcase(_, _)
\* fnmatch.fnmatchcase(name, pat), pat made of literal characters, * and ?
fnmatchcase(name, pat) ==
    IF pat = <<>> THEN name = <<>>
    ELSE IF pat[1] = "*"
    THEN fnmatchcase(name, Tail(pat)) \/ (name # <<>> /\ fnmatchcase(Tail(name), pat))
    ELSE /\ name # <<>>
         /\ pat[1] = "?" \/ pat[1] = name[1]
         /\ fnmatchcase(Tail(name), Tail(pat))

\* fnmatch(name, pat) of two keys: a TypeError unless both are strings
fnmatch(name, pat) ==
    IF name.k = "str" /\ pat.k = "str" THEN Ok(fnmatchcase(name.s, pat.s))
    ELSE Fail(Raise("TypeError"))

\* unflatten(newd, list_of_dicts=list_of_dicts) of the dict the pairs make
\* when they are inserted in this order
unflatten_items(items, list_of_dicts) ==
    LET newd == dict_items(items)
        keys == [i \in 1..Len(newd) |-> newd[i][1]]
    IN unflatten(dict_of(newd), TRUE, Sep, list_of_dicts,
                 SelectSeq(keys, LAMBDA k : k # root_key(TRUE)))

\* the key taken as the name and the part of the path as the pattern
filter_keys_is_in_swapped(a, bs, use_wildcards) ==
    IF use_wildcards
    THEN \E i \in 1..Len(bs) :
            \/ a = bs[i]
            \/ ~Failed(fnmatch(a, bs[i])) /\ fnmatch(a, bs[i]).val
    ELSE \E i \in 1..Len(bs) : bs[i] = a

\* is_in(a, bs) of filter_keys: a one of the given keys, bs a path
filter_keys_is_in(a, bs, use_wildcards) ==
    IF use_wildcards
    THEN \E i \in 1..Len(bs) :
            \/ a = bs[i]
            \/ ~Failed(fnmatch(bs[i], a)) /\ fnmatch(bs[i], a).val
    ELSE \E i \in 1..Len(bs) : bs[i] = a

filter_keys(d, keys, use_wildcards, list_of_dicts) ==
    Bind(flatten_items(d, TRUE, Sep, list_prefix(list_of_dicts), None), LAMBDA flatd :
         unflatten_items(
            SelectSeq(flatd, LAMBDA item :
                \E i \in 1..Len(keys) : filter_keys_is_in(keys[i], item[1], use_wildcards)),
            list_prefix(list_of_dicts)))

\* is_in(k, v, vmap) of filter_keyvals: vmap the dict of the given pairs
filter_keyvals_is_in(k, v, vmap, error) ==
    IF k \notin DOMAIN vmap THEN FALSE
    ELSE IF v = vmap[k] THEN TRUE
    ELSE IF error.some
    THEN IF v.t = "int" /\ vmap[k].t = "int"
         THEN vmap[k].i > v.i - error.n /\ vmap[k].i < v.i + error.n
         ELSE FALSE      \* the TypeError of - or of > is caught
    ELSE FALSE

\* the last part of a path, the path without its last part
leaf_of(k) == k[Len(k)]
parent_of(k) == SubSeq(k, 1, Len(k) - 1)

\* the path has the parent path of the pruned path
starts_with_parent_only(k, p) == Len(k) > 0 /\ parent_of(k) = p

\* tuple(k[:len(p)]) == p
starts_with(k, p) == Len(p) <= Len(k) /\ SubSeq(k, 1, Len(p)) = p

filter_keyvals(d, vals, error, keep_siblings, list_of_dicts) ==
    LET vmap == dict_of(dict_items(vals))
        hit(item) == filter_keyvals_is_in(leaf_of(item[1]), item[2], vmap, error)
    IN Bind(flatten_items(d, TRUE, Sep, list_prefix(list_of_dicts), None), LAMBDA flatd :
         IF ~keep_siblings
         THEN unflatten_items(SelectSeq(flatd, hit), list_prefix(list_of_dicts))
         ELSE LET prune == SelectSeq(flatd, hit)
              IN unflatten_items(
                    SelectSeq(flatd, LAMBDA item :
                        \E i \in 1..Len(prune) :
                            starts_with(item[1], parent_of(prune[i][1]))),
                    list_prefix(list_of_dicts)))

\* the whole path stands for the branch to prune
prune_key_whole_path(k) == k

\* k[0]: the first part of a path stands for the branch to prune
prune_key(k) == k[1]

remove_keyvals(d, keyvals, list_of_dicts) ==
    IF ~is_dict_like(d) THEN Ok(d)      \* not hasattr(d, 'items')
    ELSE Bind(flatten_items(d, TRUE, Sep, list_prefix(list_of_dicts), None), LAMBDA flatd :
         LET hits == SelectSeq(flatd, LAMBDA item :
                        \E i \in 1..Len(keyvals) :
                            keyvals[i] = <<leaf_of(item[1]), item[2]>>)
             prune == [i \in 1..Len(hits) |-> prune_key(hits[i][1])]
         IN unflatten_items(
               SelectSeq(flatd, LAMBDA item :
                   ~\E i \in 1..Len(prune) : prune[i] = prune_key(item[1])),
               list_prefix(list_of_dicts)))

\* is_in(a, bs) of remove_keys: a a part of a path, bs the given keys
remove_keys_is_in(a, bs, use_wildcards) ==
    IF use_wildcards
    THEN \E i \in 1..Len(bs) :
            \/ a = bs[i]
            \/ ~Failed(fnmatch(a, bs[i])) /\ fnmatch(a, bs[i]).val
    ELSE \E i \in 1..Len(bs) : bs[i] = a

\* tuple([i for i in key if not is_in(i, keys)])
new_key(key, keys, use_wildcards) ==
    SelectSeq(key, LAMBDA i : ~remove_keys_is_in(i, keys, use_wildcards))

\* new_key[-1].startswith(list_of_dicts), its exceptions passed over
ends_in_list_key(key, list_of_dicts) ==
    /\ list_of_dicts.some
    /\ leaf_of(key).k = "str"
    /\ StartsWith(leaf_of(key).s, list_of_dicts.s)

remove_keys(d, keys, use_wildcards, list_of_dicts) ==
    IF ~is_dict_like(d) THEN Ok(d)      \* not hasattr(d, 'items')
    ELSE Bind(flatten_items(d, TRUE, Sep, list_prefix(list_of_dicts), None), LAMBDA dic :
         LET renamed == [i \in 1..Len(dic) |->
                            <<new_key(dic[i][1], keys, use_wildcards), dic[i][2]>>]
         IN unflatten_items(
               SelectSeq(renamed, LAMBDA item :
                   /\ item[1] # <<>>
                   /\ ~ends_in_list_key(item[1], list_prefix(list_of_dicts))),
               list_prefix(list_of_dicts)))

\* only the last key of the path is looked at
remove_paths_contains_last(path, keys) ==
    \E i \in 1..Len(keys) : path[Len(path)] = keys[i]

\* contains(path) of remove_paths
remove_paths_contains(path, keys) ==
    \E i \in 1..Len(keys) : \E j \in 1..Len(path) : path[j] = keys[i]

remove_paths(d, keys, list_of_dicts) ==
    Bind(flatten_items(d, TRUE, Sep, list_prefix(list_of_dicts), None), LAMBDA flatd :
         unflatten_items(
            SelectSeq(flatd, LAMBDA item : ~remove_paths_contains(item[1], keys)),
            list_prefix(list_of_dicts)))

filter_values(d, vals, list_of_dicts) ==
    Bind(flatten_items(d, TRUE, Sep, list_prefix(list_of_dicts), None), LAMBDA flatd :
         unflatten_items(
            SelectSeq(flatd, LAMBDA item : \E i \in 1..Len(vals) : vals[i] = item[2]),
            list_prefix(list_of_dicts)))

\* a member of `paths`: a tuple of keys, or one key
PathOf(ks) == [tuple |-> TRUE, ks |-> ks]
KeyOf(k) == [tuple |-> FALSE, ks |-> <<k>>]

\* all_keys of filter_paths
filter_paths_all_keys(paths) ==
    LET RECURSIVE concat(_)
        concat(q) == IF q = <<>> THEN <<>> ELSE q[1].ks \o concat(Tail(q))
    IN concat(SelectSeq(paths, LAMBDA y : y.tuple))
       \o concat(SelectSeq(paths, LAMBDA x : ~x.tuple))

filter_paths(d, paths, list_of_dicts) ==
    Bind(filter_keys(d, filter_paths_all_keys(paths), FALSE, list_of_dicts), LAMBDA new_d :
    Bind(flatten_items(d, TRUE, Sep, list_prefix(list_of_dicts), None), LAMBDA flatd :
         unflatten_items(
            SelectSeq(flatd, LAMBDA item :
                \E i \in 1..Len(paths) :
                    \A j \in 1..Len(paths[i].ks) :
                        \E h \in 1..Len(item[1]) : item[1][h] = paths[i].ks[j]),
            list_prefix(list_of_dicts))))

\* keymap.get(k, k)
keymap_get(keymap, k) == IF k \in DOMAIN keymap THEN keymap[k] ELSE k

rename_keys(d, keymap, list_of_dicts) ==
    Bind(flatten_items(d, TRUE, Sep, list_prefix(list_of_dicts), None), LAMBDA flatd :
         unflatten_items(
            [i \in 1..Len(flatd) |->
                <<[j \in 1..Len(flatd[i][1]) |-> keymap_get(keymap, flatd[i][1][j])],
                  flatd[i][2]>>],
            list_prefix(list_of_dicts)))

----------------------------------------------------------------------------
(* flattennd, apply and combine_apply *)

\* the key is always cut before its last segment
levels_cut_one(key, levels) == Len(key) - 1

\* where key[:-levels] ends and key[-levels:] begins, for levels > 0
levels_cut(key, levels) == IF levels >= Len(key) THEN 0 ELSE Len(key) - levels

RECURSIVE flattennd_loop(_, _, _)
\* the loop of flattennd over the items of the flattened dict still to
\* visit; new_d the pairs of the dict built so far, in its order
flattennd_loop(new_d, items, levels) ==
    IF items = <<>> THEN Ok(new_d)
    ELSE LET key == items[1][1]
             cut == levels_cut(key, levels)
             new_k == SubSeq(key, 1, cut)
             new_levels == SubSeq(key, cut + 1, Len(key))
             at == {i \in 1..Len(new_d) : new_d[i][1] = new_k}
         IN Bind(unflatten(new_levels :> items[1][2], TRUE, Sep, None, <<new_levels>>),
                 LAMBDA val_dict :
                 IF at = {}
                 THEN flattennd_loop(Append(new_d, <<new_k, val_dict>>), Tail(items), levels)
                 ELSE Bind(merge(<<new_d[CHOOSE i \in at : TRUE][2], val_dict>>, FALSE, FALSE),
                           LAMBDA merged :
                           flattennd_loop([new_d EXCEPT ![CHOOSE i \in at : TRUE] =
                                                            <<new_k, merged>>],
                                          Tail(items), levels)))

\* flattennd(d, levels): the (key, value) pairs of the returned dict
flattennd(d, levels) ==
    IF levels < 0 THEN Fail(Raise("ValueError"))
    ELSE Bind(flatten_items(d, TRUE, Sep, None, None), LAMBDA flattened :
              IF levels = 0 THEN Ok(flattened)
              ELSE flattennd_loop(<<>>, flattened, levels))

\* the function given to apply: lambda x: x + 1
func(v) == IF v.t = "int" THEN Ok(I(v.i + 1)) ELSE Fail(Raise("TypeError"))

apply(d, leaf_key, new_name, remove_lkey, list_of_dicts) ==
    Bind(flatten_items(d, TRUE, Sep, list_prefix(list_of_dicts), None), LAMBDA flatd :
         IF \E i \in 1..Len(flatd) :
               leaf_of(flatd[i][1]) = leaf_key /\ Failed(func(flatd[i][2]))
         THEN Fail(Raise("TypeError"))
         ELSE LET newd == [i \in 1..Len(flatd) |->
                             <<flatd[i][1],
                               IF leaf_of(flatd[i][1]) = leaf_key
                               THEN func(flatd[i][2]).val ELSE flatd[i][2]>>]
                  renamed == [i \in 1..Len(newd) |->
                                <<IF leaf_of(newd[i][1]) = leaf_key
                                  THEN Append(parent_of(newd[i][1]), new_name.key)
                                  ELSE newd[i][1],
                                  newd[i][2]>>]
              IN IF ~new_name.some THEN unflatten_items(newd, list_prefix(list_of_dicts))
                 ELSE IF remove_lkey
                 THEN unflatten_items(renamed, list_prefix(list_of_dicts))
                 \* newd.update(flatd)
                 ELSE unflatten_items(dict_items(renamed) \o flatd,
                                      list_prefix(list_of_dicts)))

RECURSIVE Sum(_)
Sum(q) == IF q = <<>> THEN 0 ELSE q[1].i + Sum(Tail(q))

\* the function given to combine_apply: lambda *x: sum(x)
func_of_all(vals) ==
    IF \A i \in 1..Len(vals) : vals[i].t = "int" THEN Ok(I(Sum(vals)))
    ELSE Fail(Raise("TypeError"))

\* the new name is looked for in the sub-dict as it was before the leaf keys
\* were popped
left_in_all(dic, leaf_keys, remove_lkeys) == dic

\* the sub-dict after `vals = [dic.pop(k) for k in leaf_keys]`, or as it is
left_in(dic, leaf_keys, remove_lkeys) ==
    IF remove_lkeys
    THEN [x \in DOMAIN dic \ {leaf_keys[i] : i \in 1..Len(leaf_keys)} |-> dic[x]]
    ELSE dic

RECURSIVE combine_loop(_, _, _, _, _, _)
\* `for dic in flatd.values()`, from the i-th value on
combine_loop(flatd, i, leaf_keys, new_name, remove_lkeys, overwrite) ==
    IF i > Len(flatd) THEN Ok(flatd)
    ELSE LET dic == flatd[i][2]
             rest == left_in(dic.d, leaf_keys, remove_lkeys)
         IN IF ~is_dict_like(dic)
               \/ ~\A j \in 1..Len(leaf_keys) : leaf_keys[j] \in DOMAIN dic.d
            THEN combine_loop(flatd, i + 1, leaf_keys, new_name, remove_lkeys, overwrite)
            ELSE IF new_name \in DOMAIN rest /\ ~overwrite
            THEN Fail(Raise("ValueError"))
            ELSE Bind(func_of_all([j \in 1..Len(leaf_keys) |-> dic.d[leaf_keys[j]]]),
                      LAMBDA v :
                      combine_loop([flatd EXCEPT ![i] = <<flatd[i][1],
                                                          D(DictSet(rest, new_name, v))>>],
                                   i + 1, leaf_keys, new_name, remove_lkeys, overwrite))

\* combine_apply(d, leaf_keys, func, new_name, unflatten_level=1, ...)
combine_apply(d, leaf_keys, new_name, remove_lkeys, overwrite) ==
    Bind(flattennd(d, 1), LAMBDA flatd :
    Bind(combine_loop(flatd, 1, leaf_keys, new_name, remove_lkeys, overwrite),
         LAMBDA combined : unflatten_items(combined, None)))

----------------------------------------------------------------------------
(* extract *)

\* d_sub.pop(key) leaves the container as it was
pop_nothing(a, key) == Ok(a)

\* the container after d_sub.pop(key), for a key that d_sub[key] has found
pop(a, key) ==
    CASE a.t = "dict" -> Ok(D([x \in DOMAIN a.d \ {key} |-> a.d[x]]))
      [] a.t = "list" -> Ok(L(SubSeq(a.l, 1, key.n) \o SubSeq(a.l, key.n + 2, Len(a.l))))
      [] OTHER        -> Fail(Raise("AttributeError"))

RECURSIVE extract_walk(_, _)
\* the walk of extract from d_sub along a non-empty path: the pair
\* (d_sub after the pop, d_extract), a Python tuple modelled as a list
extract_walk(d_sub, path) ==
    Bind(GetItem(d_sub, KeyAsValue(path[1])), LAMBDA below :
         IF Len(path) > 1
         THEN Bind(extract_walk(below, Tail(path)), LAMBDA r :
              Bind(SetItem(d_sub, KeyAsValue(path[1]), r.l[1]), LAMBDA d_new :
                   Ok(L(<<d_new, r.l[2]>>))))
         ELSE Bind(pop(d_sub, path[1]), LAMBDA d_new :
                   Ok(L(<<d_new, D(path[1] :> below)>>))))

\* extract(d, path): (d_new, d_extract)
extract(d, path) ==
    IF path = <<>> THEN Fail(Raise("IndexError"))   \* path[-1] of an empty list
    ELSE extract_walk(d, path)

----------------------------------------------------------------------------
(* diff *)

RECURSIVE path_less(_, _)
\* p < q for two tuples of keys that Python can compare
path_less(p, q) ==
    IF p = <<>> THEN q # <<>>
    ELSE IF q = <<>> THEN FALSE
    ELSE IF p[1] = q[1] THEN path_less(Tail(p), Tail(q))
    ELSE KeyLess(p[1], q[1])

RECURSIVE comparable(_, _)
\* p < q raises no TypeError: the first keys that differ are of one kind
comparable(p, q) ==
    \/ p = <<>> \/ q = <<>>
    \/ IF p[1] = q[1] THEN comparable(Tail(p), Tail(q)) ELSE p[1].k = q[1].k

RECURSIVE sorted_entries(_)
\* the entries of a set, whose paths differ, in ascending order
sorted_entries(es) ==
    IF es = {} THEN <<>>
    ELSE LET m == CHOOSE x \in es : \A y \in es \ {x} : path_less(x[1], y[1])
         IN <<m>> \o sorted_entries(es \ {m})

\* `try: outcome[key] = sorted(outcome[key]); except: pass`
sorted(entries) ==
    IF \A i, j \in DOMAIN entries : comparable(entries[i][1], entries[j][1])
    THEN sorted_entries({entries[i] : i \in DOMAIN entries})
    ELSE entries

\* every pair of values of one path is reported as a change
changed_always(val, other_val) == TRUE

\* `if val != other_val`
changed(val, other_val) == val # other_val

\* diff(new_dict, old_dict, iter_prefix): the outcome, a dict from the names
\* of its non-empty lists to these lists
diff(new_dict, old_dict, iter_prefix) ==
    Bind(flatten_items(new_dict, TRUE, Sep, None, Some(iter_prefix)), LAMBDA dct1_flat :
    Bind(flatten_items(old_dict, TRUE, Sep, None, Some(iter_prefix)), LAMBDA dct2_flat :
         LET dct1 == dict_of(dct1_flat)
             dct2 == dict_of(dct2_flat)
             both == SelectSeq(dct1_flat, LAMBDA e : e[1] \in DOMAIN dct2
                                                     /\ changed(e[2], dct2[e[1]]))
             outcome ==
                 [insertions |-> SelectSeq(dct1_flat, LAMBDA e : e[1] \notin DOMAIN dct2),
                  deletions |-> SelectSeq(dct2_flat, LAMBDA e : e[1] \notin DOMAIN dct1),
                  changes |-> [i \in DOMAIN both |->
                                 <<both[i][1], <<both[i][2], dct2[both[i][1]]>> >>]]
         IN Ok([key \in {x \in DOMAIN outcome : outcome[x] # <<>>} |->
                   sorted(outcome[key])])))

----------------------------------------------------------------------------
(* split_lists *)

SplitError(msg, key) ==
    Fail([NoErr EXCEPT !.type = "ValueError", !.msg = msg, !.path = key])

\* the lengths of two lists under one parent are never compared
lengths_differ_never(subvalue, length, check_length) == FALSE

\* `if check_length and length is not None: if len(subvalue) != length`
lengths_differ(subvalue, length, check_length) ==
    check_length /\ length.some /\ Len(subvalue.l) # length.n

RECURSIVE split_items(_, _, _, _, _, _, _, _, _, _)
\* `for subkey, subvalue in value.items()` over the subkeys still to visit:
\* the value of new_d[key] after the loop (out, so far)
split_items(key, value, subkeys, split_keys, new_name, check_length, combine_d, sub_d, length, out) ==
    IF subkeys = <<>> THEN Ok(out)
    ELSE LET subkey == subkeys[1]
             subvalue == value[subkey]
             is_split == \E i \in DOMAIN split_keys : split_keys[i] = subkey
             combined ==
                 IF ~is_split THEN combine_d
                 ELSE IF ~length.some
                 THEN [i \in DOMAIN subvalue.l |-> D(subkey :> subvalue.l[i])]
                 \* for item, val in zip(combine_d, subvalue): item[subkey] = val
                 ELSE [i \in DOMAIN combine_d |->
                          IF i <= Len(subvalue.l)
                          THEN D(DictSet(combine_d[i].d, subkey, subvalue.l[i]))
                          ELSE combine_d[i]]
             rest_d == IF is_split THEN sub_d ELSE DictSet(sub_d, subkey, subvalue)
         IN IF is_split /\ subvalue.t # "list" THEN SplitError("is not a list", key)
            ELSE IF is_split /\ lengths_differ(subvalue, length, check_length)
            THEN SplitError("do not have the same size", key)
            ELSE LET merged == merge(<<D(rest_d), D(new_name :> L(combined))>>, FALSE, FALSE)
                 IN IF Failed(merged) /\ merged.err.type = "ValueError"
                    THEN SplitError("already exists at this level", key)
                    ELSE Bind(merged, LAMBDA m :
                         split_items(key, value, Tail(subkeys), split_keys, new_name,
                                     check_length, combined, rest_d,
                                     IF is_split THEN Number(Len(subvalue.l)) ELSE length,
                                     m))

RECURSIVE split_loop(_, _, _, _, _)
\* `for key, value in flattened.items()`, from the i-th item on
split_loop(flattened, i, split_keys, new_name, check_length) ==
    IF i > Len(flattened) THEN Ok(flattened)
    ELSE LET key == flattened[i][1]
             value == flattened[i][2].d
         IN IF {split_keys[j] : j \in DOMAIN split_keys} \subseteq DOMAIN value
            THEN Bind(split_items(key, value, IterKeys(value), split_keys, new_name,
                                  check_length, <<>>, EmptyMap, NoNumber, Nothing),
                      LAMBDA out :
                      split_loop([flattened EXCEPT ![i] = <<key, out>>], i + 1,
                                 split_keys, new_name, check_length))
            ELSE split_loop(flattened, i + 1, split_keys, new_name, check_length)

\* split_lists(d, split_keys, new_name, check_length)
split_lists(d, split_keys, new_name, check_length) ==
    Bind(flattennd(d, 1), LAMBDA flattened :
    Bind(split_loop(flattened, 1, split_keys, new_name, check_length),
         LAMBDA new_d : unflatten_items(new_d, None)))

----------------------------------------------------------------------------
(* plugins.py: the plugin store *)

\* _plugins_interface: the categories, in the order of the dict, and the
\* attributes a class must have to be a plugin of each
Categories == <<"encoders", "decoders", "parsers">>
_plugins_interface ==
    [encoders |-> {"plugin_name", "plugin_descript", "objclass"},
     decoders |-> {"plugin_name", "plugin_descript", "dict_signature"},
     parsers  |-> {"plugin_name", "plugin_descript", "file_regex", "read_file"}]

\* the internal plugin store, a module-level dict: category -> name -> instance
_all_plugins == heap
\* every object made by klass() so far
instances == dicts
\* the list a load returns
load_errors == flat

\* a load may replace a registered plugin whatever overwrite is
rejected_never(store, klass, pcat, overwrite) == FALSE

\* `if klass.plugin_name in _all_plugins[pcat] and not overwrite`
rejected(store, klass, pcat, overwrite) ==
    klass.plugin_name \in DOMAIN store[pcat] /\ ~overwrite

RECURSIVE load_loop(_, _, _, _, _, _, _)
\* the two loops of load_plugin_classes from the i-th class and its j-th
\* category on: the store, the objects made and the errors at the end
load_loop(st, classes, i, j, category, overwrite, made) ==
    IF i > Len(classes) THEN st
    ELSE IF j > Len(Categories)
    THEN load_loop(st, classes, i + 1, 1, category, overwrite, made)
    ELSE LET klass == classes[i]
             pcat == Categories[j]
             obj == [class |-> klass.name, id |-> Len(st.made) + 1]
         IN IF category.some /\ pcat # category.s
            THEN load_loop(st, classes, i, j + 1, category, overwrite, made)
            ELSE IF ~(_plugins_interface[pcat] \subseteq klass.attrs)
            THEN load_loop([st EXCEPT !.errors =
                               Append(@, <<klass.name, "does not match interface", pcat>>)],
                           classes, i, j + 1, category, overwrite, made)
            ELSE IF rejected(st.store, klass, pcat, overwrite)
            THEN load_loop([st EXCEPT !.errors =
                               Append(@, <<klass.name, "is already set for", pcat>>)],
                           classes, i, j + 1, category, overwrite, made)
            ELSE load_loop([st EXCEPT !.store[pcat] =
                                          DictSet(@, klass.plugin_name, obj),
                                      !.made = Append(@, obj)],
                           classes, i, j + 1, category, overwrite, made)

\* load_plugin_classes(classes, category, overwrite)
load_plugin_classes(store, made, classes, category, overwrite) ==
    load_loop([store |-> store, made |-> made, errors |-> <<>>],
              classes, 1, 1, category, overwrite, made)

----------------------------------------------------------------------------
(* mockpath.py: a mock file system of MockPath objects *)

\* every MockPath object made so far, each known by its position
objects == heap

\* `parent=None`
NoParent == 0

\* os.path.join and os.path.dirname on a path held as its sequence of parts
join(path, name) == Append(path, name)
dirname(path) == IF Len(path) = 0 THEN <<>> ELSE SubSeq(path, 1, Len(path) - 1)

\* the fields __init__ sets, before the structure is added
fields(path, is_file, exists, content, parent) ==
    [_path |-> path, _name |-> path[Len(path)], _exists |-> exists,
     _is_file |-> is_file, _is_dir |-> ~is_file, _content |-> content,
     _parent |-> parent, _children |-> <<>>]

\* one entry of a structure: a MockPath object, or {key: [MockPath, ...]}
Item(obj) == [dict |-> FALSE, obj |-> obj, key |-> "", items |-> <<>>]
DictItem(key, items) == [dict |-> TRUE, obj |-> NoParent, key |-> key, items |-> items]

\* what a constructor or joinpath gives back: the store and the object
Made(h, obj) == [h |-> h, obj |-> obj]

RECURSIVE _set_parent(_, _, _)
RECURSIVE _set_parent_children(_, _, _)
\* child.parent = parent: the child's path is rebuilt, and so is every path below
_set_parent(h, self, parent) ==
    _set_parent_children(
        [h EXCEPT ![self]._parent = parent,
                  ![self]._path = join(IF parent = NoParent THEN <<>> ELSE h[parent]._path,
                                       h[self]._name)],
        self, 1)
_set_parent_children(h, self, i) ==
    IF i > Len(h[self]._children) THEN h
    ELSE _set_parent_children(_set_parent(h, h[self]._children[i], self), self, i + 1)

\* self.parent: an object without a parent answers with a new existing 'subroot'
_get_parent(h, self) ==
    IF h[self]._parent = NoParent THEN fields(<<"subroot">>, FALSE, TRUE, <<>>, NoParent)
    ELSE h[h[self]._parent]

\* self.name = name
_set_name(h, self, name) ==
    IF h[self]._parent # NoParent
    THEN [h EXCEPT ![self]._name = name, ![self]._path = join(_get_parent(h, self)._path, name)]
    ELSE [h EXCEPT ![self]._name = name]

\* the names add_child looks through
child_names(h, self) == {h[h[self]._children[i]]._name : i \in DOMAIN h[self]._children}

name_taken(h, self, name) == name \in child_names(h, self)

add_child(h, self, child) ==
    IF name_taken(h, self, h[child]._name) THEN Fail(Raise("IOError"))
    ELSE Ok([_set_parent(h, child, self) EXCEPT ![self]._children = Append(@, child)])

RECURSIVE MockPath(_, _, _, _, _, _, _)
RECURSIVE add_structure(_, _, _, _)
RECURSIVE add_children(_, _, _, _)
\* MockPath(path, is_file, exists, structure, content, parent)
MockPath(h, path, is_file, exists, structure, content, parent) ==
    LET self == Len(h) + 1
        h1 == Append(h, fields(path, is_file, exists, content, parent))
    IN  IF Len(path) > 1 /\ parent = NoParent
        THEN Bind(MockPath(h1, dirname(path), FALSE, TRUE, <<>>, <<>>, NoParent),
                  LAMBDA up : Bind(add_structure(_set_parent(up.h, self, up.obj), self,
                                                 structure, 1),
                                   LAMBDA h2 : Ok(Made(h2, self))))
        ELSE Bind(add_structure(h1, self, structure, 1), LAMBDA h2 : Ok(Made(h2, self)))
\* for subobj in structure
add_structure(h, self, structure, i) ==
    IF i > Len(structure) THEN Ok(h)
    ELSE IF structure[i].dict
    THEN Bind(MockPath(h, join(h[self]._path, structure[i].key), FALSE, TRUE, <<>>, <<>>, self),
              LAMBDA sub : Bind(add_children(sub.h, sub.obj, structure[i].items, 1),
              LAMBDA h2 : Bind(add_child(h2, self, sub.obj),
              LAMBDA h3 : add_structure(h3, self, structure, i + 1))))
    ELSE IF h[structure[i].obj]._parent # NoParent THEN Fail(Raise("ValueError"))
    ELSE Bind(add_child(h, self, structure[i].obj),
              LAMBDA h2 : add_structure(h2, self, structure, i + 1))
\* the structure of a {key: [MockPath, ...]} entry, added to the folder made for key
add_children(h, self, items, i) ==
    IF i > Len(items) THEN Ok(h)
    ELSE IF h[items[i]]._parent # NoParent THEN Fail(Raise("ValueError"))
    ELSE Bind(add_child(h, self, items[i]), LAMBDA h2 : add_children(h2, self, items, i + 1))

RECURSIVE copy_path_obj(_, _)
RECURSIVE _recurse_structure(_, _, _, _)
RECURSIVE copy_all(_, _, _, _)
\* copy mock path (removing path and parent)
copy_path_obj(h, self) ==
    IF h[self]._is_file
    THEN MockPath(h, <<h[self]._name>>, TRUE, h[self]._exists, <<>>, h[self]._content, NoParent)
    ELSE Bind(_recurse_structure(h, self, 1, <<>>),
              LAMBDA s : MockPath(s.h, <<h[self]._name>>, FALSE, h[self]._exists, s.obj,
                                  <<>>, NoParent))
\* the existing children: a file as its copy, a folder as {name: copies of its children}
_recurse_structure(h, self, i, structure) ==
    IF i > Len(h[self]._children) THEN Ok(Made(h, structure))
    ELSE LET child == h[self]._children[i]
         IN  IF ~h[child]._exists THEN _recurse_structure(h, self, i + 1, structure)
             ELSE IF h[child]._is_file
             THEN Bind(copy_path_obj(h, child),
                       LAMBDA c : _recurse_structure(c.h, self, i + 1,
                                                     Append(structure, Item(c.obj))))
             ELSE Bind(copy_all(h, h[child]._children, 1, <<>>),
                       LAMBDA c : _recurse_structure(c.h, self, i + 1,
                                      Append(structure, DictItem(h[child]._name, c.obj))))
\* [c.copy_path_obj() for c in child.children]
copy_all(h, children, i, copies) ==
    IF i > Len(children) THEN Ok(Made(h, copies))
    ELSE Bind(copy_path_obj(h, children[i]),
              LAMBDA c : copy_all(c.h, children, i + 1, Append(copies, c.obj)))

\* the first child of that name, or NoParent when there is none
named_child(h, self, name) ==
    LET found == {i \in DOMAIN h[self]._children : h[h[self]._children[i]]._name = name}
    IN  IF found = {} THEN NoParent
        ELSE h[self]._children[CHOOSE i \in found : \A j \in found : i <= j]

RECURSIVE joinpath(_, _, _)
joinpath(h, self, parts) ==
    IF Len(parts) = 0 THEN Fail(Raise("IOError"))
    ELSE IF Len(parts) = 1 /\ parts[1] \in {"", "."} THEN Ok(Made(h, self))
    ELSE IF named_child(h, self, parts[1]) # NoParent
    THEN IF Len(parts) = 1 THEN Ok(Made(h, named_child(h, self, parts[1])))
         ELSE joinpath(h, named_child(h, self, parts[1]), Tail(parts))
    ELSE Bind(MockPath(h, join(h[self]._path, parts[1]), FALSE, FALSE, <<>>, <<>>, self),
              LAMBDA new : Bind(add_child(new.h, self, new.obj),
              LAMBDA h2 : IF Len(parts) = 1 THEN Ok(Made(h2, new.obj))
                          ELSE joinpath(h2, new.obj, Tail(parts))))

rename(h, self, name) ==
    IF ~h[self]._exists THEN Fail(Raise("IOError"))
    ELSE Ok([_set_name(h, self, name) EXCEPT
                ![self]._path = join(dirname(_set_name(h, self, name)[self]._path), name)])

\* if not self._exists: become an existing folder
made_dir(h, self) ==
    IF ~h[self]._exists
    THEN [h EXCEPT ![self]._is_file = FALSE, ![self]._is_dir = TRUE, ![self]._exists = TRUE]
    ELSE h

RECURSIVE mkdir(_, _, _)
mkdir(h, self, parents) ==
    IF ~_get_parent(h, self)._exists
    THEN IF ~parents THEN Fail(Raise("FileNotFoundError"))
         ELSE Bind(mkdir(h, h[self]._parent, parents), LAMBDA h2 : Ok(made_dir(h2, self)))
    ELSE Ok(made_dir(h, self))

parent_missing(h, self) == ~_get_parent(h, self)._exists

touch(h, self) ==
    IF parent_missing(h, self) THEN Fail(Raise("IOError"))
    ELSE IF ~h[self]._exists
    THEN Ok([h EXCEPT ![self]._is_file = TRUE, ![self]._is_dir = FALSE, ![self]._exists = TRUE])
    ELSE Ok(h)

unlink(h, self) ==
    IF ~h[self]._is_file THEN Fail(Raise("IOError"))
    ELSE Ok([h EXCEPT ![self]._exists = FALSE])

\* the children iterdir yields: those that exist
iterdir(h, self) == {i \in DOMAIN h[self]._children : h[h[self]._children[i]]._exists}

rmdir(h, self) ==
    IF ~h[self]._is_dir THEN Fail(Raise("IOError"))
    ELSE IF iterdir(h, self) # {} THEN Fail(Raise("IOError"))
    ELSE Ok([h EXCEPT ![self]._exists = FALSE])

\* copy_from(source) with a MockPath source
copy_from(h, self, source) ==
    IF ~h[self]._is_dir \/ ~h[self]._exists THEN Fail(Raise("IOError"))
    ELSE IF ~h[source]._exists THEN Fail(Raise("IOError"))
    ELSE Bind(copy_path_obj(h, source), LAMBDA newpath : add_child(newpath.h, self, newpath.obj))

\* copy_to(target) with a MockPath target
copy_to(h, self, target) ==
    IF ~h[self]._exists THEN Fail(Raise("IOError"))
    ELSE IF ~h[target]._is_dir THEN Fail(Raise("IOError"))
    ELSE Bind(copy_path_obj(h, self), LAMBDA newpath : add_child(newpath.h, target, newpath.obj))

----------------------------------------------------------------------------
(* One call of an operation of the filtering family on a nested dict *)

\* the keys of the dicts given to the family
FilterTreeKeys == {Ka, Kb}

\* largest number of dict entries and list elements of an input
MaxFilterSize == 4

RECURSIVE FilterDictsOfSize(_)
RECURSIVE FilterListsOfSize(_)

FilterValuesOfSize(n) == Leaves \cup FilterDictsOfSize(n) \cup FilterListsOfSize(n)

FilterDictsOfSize(n) ==
    {D(EmptyMap)} \cup
    UNION {UNION {{D(DictSet(m.d, x, v)) : x \in FilterTreeKeys \ DOMAIN m.d,
                                           v \in FilterValuesOfSize(j)}
                  : m \in FilterDictsOfSize(n - 1 - j)}
           : j \in 0..(n - 1)}

\* the non-empty lists of dicts
FilterListsOfSize(n) ==
    UNION {{L(<<m>> \o q) : m \in FilterDictsOfSize(j),
                            q \in {<<>>} \cup {x.l : x \in FilterListsOfSize(n - 1 - j)}}
           : j \in 0..(n - 1)}

\* what the family is given: a dict, or a list of dicts
FilterInputs(n) == FilterDictsOfSize(n) \cup FilterListsOfSize(n - 1)

\* the lists of keys given as `keys`
Kstar == KS(<<"*">>)
Kany == KS(<<"?">>)
Klist == KS(<<"_", "*">>)
KeyLists == {<<>>, <<Ka>>, <<Kb, Ka>>, <<Kany>>, <<Kstar>>, <<K1, Klist>>}

FilterInit ==
    /\ pc = "tree"
    /\ tree \in FilterInputs(MaxFilterSize)
    /\ flat = EmptyMap
    /\ src = Nothing
    /\ call = NoCall
    /\ ret = NoErr
    /\ heap = <<>>
    /\ dicts = <<>>
    /\ iterRev \in BOOLEAN

\* the call returns r or raises its error
Returns(r) ==
    /\ pc' = IF Failed(r) THEN "failed" ELSE "filtered"
    /\ tree' = r.val
    /\ ret' = r.err
    /\ src' = tree
    /\ UNCHANGED <<flat, heap, dicts, iterRev>>

\* tree = filter_keys(tree, keys, use_wildcards, list_of_dicts)
FilterKeys(keys, use_wildcards, list_of_dicts) ==
    /\ pc = "tree"
    /\ call' = [NoCall EXCEPT !.fn = "filter_keys", !.keys = keys,
                              !.use_wildcards = use_wildcards,
                              !.list_of_dicts = list_prefix(list_of_dicts)]
    /\ Returns(filter_keys(tree, keys, use_wildcards, list_of_dicts))

\* the lists of (key, value) pairs given as `vals`
PairLists == {<< <<Ka, I(1)>> >>, << <<Kb, I(1)>> >>, << <<Ka, I(1)>>, <<Ka, I(2)>> >>,
              << <<Kb, I(2)>>, <<Ka, I(1)>> >>, << <<Ka, I(3)>> >>, << <<Kb, I(4)>> >>}

\* the error tolerance given as `error`
Tolerance == 2

\* tree = filter_keyvals(tree, vals, error, keep_siblings, list_of_dicts)
FilterKeyvals(vals, error, keep_siblings, list_of_dicts) ==
    /\ pc = "tree"
    /\ call' = [NoCall EXCEPT !.fn = "filter_keyvals", !.vals = vals, !.error = error,
                              !.keep_siblings = keep_siblings,
                              !.list_of_dicts = list_prefix(list_of_dicts)]
    /\ Returns(filter_keyvals(tree, vals, error, keep_siblings, list_of_dicts))

\* tree = remove_keyvals(tree, keyvals, list_of_dicts)
RemoveKeyvals(keyvals, list_of_dicts) ==
    /\ pc = "tree"
    /\ call' = [NoCall EXCEPT !.fn = "remove_keyvals", !.vals = keyvals,
                              !.list_of_dicts = list_prefix(list_of_dicts)]
    /\ Returns(remove_keyvals(tree, keyvals, list_of_dicts))

\* the lists of leaf values given as `vals` to filter_values
ValueLists == {<<>>, <<I(1)>>, <<I(2), L(<<D(Ka :> I(1))>>)>>}

\* the lists given as `paths` to filter_paths
PathLists == {<<PathOf(<<Ka, Kb>>)>>, <<KeyOf(Ka)>>, <<KeyOf(Kb), PathOf(<<>>)>>,
              <<PathOf(<<Kb>>), PathOf(<<KS(ListPrefix \o <<"0">>), Ka>>)>>}

\* the dicts given as `keymap`
Keymaps == {EmptyMap, Ka :> Kb, Ka :> Kb @@ Kb :> Ka, Kb :> K1}

\* tree = remove_keys(tree, keys, use_wildcards, list_of_dicts)
RemoveKeys(keys, use_wildcards, list_of_dicts) ==
    /\ pc = "tree"
    /\ call' = [NoCall EXCEPT !.fn = "remove_keys", !.keys = keys,
                              !.use_wildcards = use_wildcards,
                              !.list_of_dicts = list_prefix(list_of_dicts)]
    /\ Returns(remove_keys(tree, keys, use_wildcards, list_of_dicts))

\* tree = remove_paths(tree, keys, list_of_dicts)
RemovePaths(keys, list_of_dicts) ==
    /\ pc = "tree"
    /\ call' = [NoCall EXCEPT !.fn = "remove_paths", !.keys = keys,
                              !.list_of_dicts = list_prefix(list_of_dicts)]
    /\ Returns(remove_paths(tree, keys, list_of_dicts))

\* tree = filter_values(tree, vals, list_of_dicts)
FilterValues(vals, list_of_dicts) ==
    /\ pc = "tree"
    /\ call' = [NoCall EXCEPT !.fn = "filter_values", !.vals = vals,
                              !.list_of_dicts = list_prefix(list_of_dicts)]
    /\ Returns(filter_values(tree, vals, list_of_dicts))

\* tree = filter_paths(tree, paths, list_of_dicts)
FilterPaths(paths, list_of_dicts) ==
    /\ pc = "tree"
    /\ call' = [NoCall EXCEPT !.fn = "filter_paths", !.paths = paths,
                              !.list_of_dicts = list_prefix(list_of_dicts)]
    /\ Returns(filter_paths(tree, paths, list_of_dicts))

\* tree = rename_keys(tree, keymap, list_of_dicts)
RenameKeys(keymap, list_of_dicts) ==
    /\ pc = "tree"
    /\ call' = [NoCall EXCEPT !.fn = "rename_keys", !.keymap = keymap,
                              !.list_of_dicts = list_prefix(list_of_dicts)]
    /\ Returns(rename_keys(tree, keymap, list_of_dicts))

\* what the call c gives on the input d
rerun(d, c) ==
    CASE c.fn = "filter_keys" ->
            filter_keys(d, c.keys, c.use_wildcards, c.list_of_dicts.some)
      [] c.fn = "filter_keyvals" ->
            filter_keyvals(d, c.vals, c.error, c.keep_siblings, c.list_of_dicts.some)
      [] c.fn = "remove_keyvals" -> remove_keyvals(d, c.vals, c.list_of_dicts.some)
      [] c.fn = "remove_keys" ->
            remove_keys(d, c.keys, c.use_wildcards, c.list_of_dicts.some)
      [] c.fn = "remove_paths" -> remove_paths(d, c.keys, c.list_of_dicts.some)
      [] c.fn = "filter_values" -> filter_values(d, c.vals, c.list_of_dicts.some)
      [] c.fn = "filter_paths" -> filter_paths(d, c.paths, c.list_of_dicts.some)
      [] c.fn = "rename_keys" -> rename_keys(d, c.keymap, c.list_of_dicts.some)

FilterNext ==
    \/ \E keys \in KeyLists, use_wildcards \in BOOLEAN, list_of_dicts \in BOOLEAN :
          FilterKeys(keys, use_wildcards, list_of_dicts)
    \/ \E vals \in PairLists, error \in {NoNumber, Number(Tolerance)},
          keep_siblings \in BOOLEAN, list_of_dicts \in BOOLEAN :
          FilterKeyvals(vals, error, keep_siblings, list_of_dicts)
    \/ \E keyvals \in PairLists, list_of_dicts \in BOOLEAN :
          RemoveKeyvals(keyvals, list_of_dicts)
    \/ \E keys \in KeyLists, use_wildcards \in BOOLEAN, list_of_dicts \in BOOLEAN :
          RemoveKeys(keys, use_wildcards, list_of_dicts)
    \/ \E keys \in KeyLists, list_of_dicts \in BOOLEAN : RemovePaths(keys, list_of_dicts)
    \/ \E vals \in ValueLists, list_of_dicts \in BOOLEAN : FilterValues(vals, list_of_dicts)
    \/ \E paths \in PathLists, list_of_dicts \in BOOLEAN : FilterPaths(paths, list_of_dicts)
    \/ \E keymap \in Keymaps, list_of_dicts \in BOOLEAN : RenameKeys(keymap, list_of_dicts)

FilterSpec == FilterInit /\ [][FilterNext]_vars

----------------------------------------------------------------------------
(* Two calls of an operation of the filtering family, with equal arguments, *)
(* on equal inputs whose dicts iterate in opposite orders                   *)

\* largest number of dict entries and list elements of the input
MaxRerunSize == 3

RerunInit ==
    /\ pc = "tree"
    /\ tree \in FilterInputs(MaxRerunSize)
    /\ flat = EmptyMap
    /\ src = Nothing
    /\ call = NoCall
    /\ ret = NoErr
    /\ heap = <<>>
    /\ dicts = <<>>
    /\ iterRev \in BOOLEAN

\* an equal input is built with the entries of its dicts inserted the other
\* way round
Reorder ==
    /\ pc \in {"filtered", "failed"}
    /\ pc' = "reordered"
    /\ iterRev' = ~iterRev
    /\ UNCHANGED <<tree, flat, src, call, ret, heap, dicts>>

\* the same call once more, on the reordered input
Again ==
    /\ pc = "reordered"
    /\ pc' = IF Failed(rerun(src, call)) THEN "failed again" ELSE "filtered again"
    /\ tree' = rerun(src, call).val
    /\ ret' = rerun(src, call).err
    /\ UNCHANGED <<flat, src, call, heap, dicts, iterRev>>

RerunNext ==
    \/ FilterNext
    \/ Reorder
    \/ Again

RerunSpec == RerunInit /\ [][RerunNext]_vars

----------------------------------------------------------------------------
(* One call of apply, of combine_apply, of extract or of flattennd on a   *)
(* nested dict                                                            *)

\* largest number of dict entries and list elements of the input
MaxApplySize == 4

\* a key no input holds
Ks == KS(<<"s">>)

ApplyInit ==
    /\ pc = "tree"
    /\ tree \in FilterInputs(MaxApplySize)
    /\ flat = EmptyMap
    /\ src = Nothing
    /\ call = NoCall
    /\ ret = NoErr
    /\ heap = <<>>
    /\ dicts = <<>>
    /\ iterRev \in BOOLEAN

\* tree = apply(tree, leaf_key, lambda x: x + 1, new_name, remove_lkey,
\*              list_of_dicts)
Apply(leaf_key, new_name, remove_lkey, list_of_dicts) ==
    /\ pc = "tree"
    /\ call' = [NoCall EXCEPT !.fn = "apply", !.leaf_key = leaf_key,
                              !.new_name = new_name, !.remove_lkeys = remove_lkey,
                              !.list_of_dicts = list_prefix(list_of_dicts)]
    /\ Returns(apply(tree, leaf_key, new_name, remove_lkey, list_of_dicts))

\* the lists of keys given as `leaf_keys`
LeafKeyLists == {<<Ka>>, <<Kb>>, <<Ka, Kb>>}

\* tree = combine_apply(tree, leaf_keys, lambda *x: sum(x), new_name,
\*                      remove_lkeys=remove_lkeys, overwrite=overwrite)
CombineApply(leaf_keys, new_name, remove_lkeys, overwrite) ==
    /\ pc = "tree"
    /\ call' = [NoCall EXCEPT !.fn = "combine_apply", !.leaf_keys = leaf_keys,
                              !.new_name = Key(new_name),
                              !.remove_lkeys = remove_lkeys, !.overwrite = overwrite]
    /\ Returns(combine_apply(tree, leaf_keys, new_name, remove_lkeys, overwrite))

\* the paths given to extract
ExtractPaths == {<<>>, <<Ka>>, <<Kb>>, <<Ka, Kb>>, <<Kb, Ka>>, <<Ka, Ka, Ka>>,
                 <<KI(0)>>, <<Ka, KI(0)>>, <<Ka, KI(1), Kb>>}

\* tree = extract(tree, path)
Extract(path) ==
    /\ pc = "tree"
    /\ call' = [NoCall EXCEPT !.fn = "extract", !.paths = <<path>>]
    /\ Returns(extract(tree, path))

\* the numbers of levels given to flattennd
MaxLevels == 3

\* flat = flattennd(tree, levels)
FlattenNd(levels) ==
    /\ pc = "tree"
    /\ call' = [NoCall EXCEPT !.fn = "flattennd", !.next = levels]
    /\ pc' = IF Failed(flattennd(tree, levels)) THEN "failed" ELSE "flattened nd"
    /\ flat' = flattennd(tree, levels).val
    /\ ret' = flattennd(tree, levels).err
    /\ src' = tree
    /\ UNCHANGED <<tree, heap, dicts, iterRev>>

\* tree = unflatten(flat)
UnflattenNd ==
    /\ pc = "flattened nd"
    /\ pc' = IF Failed(unflatten_items(flat, None)) THEN "failed" ELSE "unflattened nd"
    /\ tree' = unflatten_items(flat, None).val
    /\ ret' = unflatten_items(flat, None).err
    /\ UNCHANGED <<flat, src, call, heap, dicts, iterRev>>

ApplyNext ==
    \/ \E leaf_key \in {Ka, Kb}, new_name \in {NoKey, Key(Ka), Key(Kb), Key(Ks)},
          remove_lkey \in BOOLEAN, list_of_dicts \in BOOLEAN :
          Apply(leaf_key, new_name, remove_lkey, list_of_dicts)
    \/ \E leaf_keys \in LeafKeyLists, new_name \in {Ka, Kb, Ks},
          remove_lkeys \in BOOLEAN, overwrite \in BOOLEAN :
          CombineApply(leaf_keys, new_name, remove_lkeys, overwrite)
    \/ \E path \in ExtractPaths : Extract(path)
    \/ \E levels \in 0..MaxLevels : FlattenNd(levels)
    \/ UnflattenNd

ApplySpec == ApplyInit /\ [][ApplyNext]_vars

----------------------------------------------------------------------------
(* One call of diff on two nested structures *)

\* largest number of dict entries and list elements of each input
MaxDiffSize == 2

DiffInit ==
    /\ pc = "trees"
    /\ tree \in TreeInputs(MaxDiffSize)
    /\ src \in TreeInputs(MaxDiffSize)
    /\ flat = EmptyMap
    /\ call = NoCall
    /\ ret = NoErr
    /\ heap = <<>>
    /\ dicts = <<>>
    /\ iterRev \in BOOLEAN

\* flat = diff(tree, src, iter_prefix=Prefix)
Diff ==
    /\ pc = "trees"
    /\ call' = [NoCall EXCEPT !.fn = "diff", !.all_iters = Some(Prefix)]
    /\ pc' = IF Failed(diff(tree, src, Prefix)) THEN "failed" ELSE "diffed"
    /\ flat' = IF Failed(diff(tree, src, Prefix)) THEN EmptyMap
               ELSE diff(tree, src, Prefix).val
    /\ ret' = diff(tree, src, Prefix).err
    /\ UNCHANGED <<tree, src, heap, dicts, iterRev>>

DiffNext == Diff

DiffSpec == DiffInit /\ [][DiffNext]_vars

----------------------------------------------------------------------------
(* One call of split_lists on a dict of dicts of lists *)

\* longest list of an input
MaxListLen == 2

\* the default new_name, a key no input holds
Ksplit == KS(<<"s", "p", "l", "i", "t">>)

\* the lists of at most n leaves
SplitLists(n) == {L([i \in 1..m |-> I(i)]) : m \in 0..n}

\* the mappings from some keys to a leaf or a list
SplitDicts ==
    UNION {{D(f) : f \in [ks -> {I(1)} \cup SplitLists(MaxListLen)]}
           : ks \in (SUBSET {Ka, Kb, Ks}) \ {{}}}

\* what split_lists is given: such a mapping, alone, under a key, or beside
\* another one
SplitInputs ==
    SplitDicts \cup {D(Ka :> m) : m \in SplitDicts}
    \cup {D(Ka :> m @@ Kb :> D(Ka :> x @@ Kb :> y)) :
             m \in SplitDicts, x \in {I(1), L(<<I(1)>>)}, y \in SplitLists(1)}

SplitInit ==
    /\ pc = "tree"
    /\ tree \in SplitInputs
    /\ flat = EmptyMap
    /\ src = Nothing
    /\ call = NoCall
    /\ ret = NoErr
    /\ heap = <<>>
    /\ dicts = <<>>
    /\ iterRev \in BOOLEAN

\* tree = split_lists(tree, split_keys, new_name, check_length)
SplitListsCall(split_keys, new_name, check_length) ==
    /\ pc = "tree"
    /\ call' = [NoCall EXCEPT !.fn = "split_lists", !.keys = split_keys,
                              !.new_name = Key(new_name), !.check_length = check_length]
    /\ Returns(split_lists(tree, split_keys, new_name, check_length))

SplitNext ==
    \E split_keys \in {<<>>, <<Ka>>, <<Ka, Kb>>, <<Ka, Kb, Ks>>},
       new_name \in {Ks, Ksplit}, check_length \in BOOLEAN :
       SplitListsCall(split_keys, new_name, check_length)

SplitSpec == SplitInit /\ [][SplitNext]_vars

----------------------------------------------------------------------------
(* Loads and unloads of plugins, in any order *)

\* the most objects klass() makes in a run
MaxInstances == 3

\* the plugin classes: two encoders of one name, one of them a decoder as
\* well, a decoder of another name, and a class of no interface
ClassA == [name |-> "A", plugin_name |-> "x",
           attrs |-> {"plugin_name", "plugin_descript", "objclass"}]
ClassB == [name |-> "B", plugin_name |-> "x",
           attrs |-> {"plugin_name", "plugin_descript", "objclass", "dict_signature"}]
ClassC == [name |-> "C", plugin_name |-> "y",
           attrs |-> {"plugin_name", "plugin_descript", "dict_signature"}]
ClassE == [name |-> "E", plugin_name |-> "x", attrs |-> {"plugin_name", "plugin_descript"}]

ClassLists == {<<ClassA>>, <<ClassB>>, <<ClassC>>, <<ClassA, ClassB>>, <<ClassB, ClassA>>,
               <<ClassE, ClassC>>, <<ClassA, ClassA>>}

CategoryArgs == {NoCategory} \cup {Category(Categories[i]) : i \in DOMAIN Categories}

\* `_all_plugins = {name: {} for name in _plugins_interface}`
PluginInit ==
    /\ pc = "imported"
    /\ heap = [c \in DOMAIN _plugins_interface |-> EmptyMap]
    /\ dicts = <<>>
    /\ flat = <<>>
    /\ tree = Nothing
    /\ src = Nothing
    /\ call = NoCall
    /\ ret = NoErr
    /\ iterRev = FALSE

\* load_errors = load_plugin_classes(classes, category, overwrite)
LoadPluginClasses(classes, category, overwrite) ==
    /\ Len(instances) < MaxInstances
    /\ call' = [NoCall EXCEPT !.fn = "load_plugin_classes", !.classes = classes,
                              !.category = category, !.overwrite = overwrite]
    /\ _all_plugins' =
          load_plugin_classes(_all_plugins, instances, classes, category, overwrite).store
    /\ instances' =
          load_plugin_classes(_all_plugins, instances, classes, category, overwrite).made
    /\ load_errors' =
          load_plugin_classes(_all_plugins, instances, classes, category, overwrite).errors
    /\ pc' = "loaded"
    /\ ret' = NoErr
    /\ UNCHANGED <<tree, src, iterRev>>

\* unload_plugin(name, category): _all_plugins[category].pop(name)
UnloadPlugin(name, category) ==
    /\ call' = [NoCall EXCEPT !.fn = "unload_plugin", !.category = Category(category)]
    /\ IF name \in DOMAIN _all_plugins[category]
       THEN /\ _all_plugins' = [_all_plugins EXCEPT ![category] =
                                   [x \in DOMAIN @ \ {name} |-> @[x]]]
            /\ ret' = NoErr
            /\ pc' = "unloaded"
       ELSE /\ ret' = Raise("KeyError")
            /\ pc' = "failed"
            /\ UNCHANGED heap
    /\ UNCHANGED <<instances, load_errors, tree, src, iterRev>>

\* unload_all_plugins(category)
UnloadAllPlugins(category) ==
    /\ call' = [NoCall EXCEPT !.fn = "unload_all_plugins", !.category = category]
    /\ _all_plugins' = [c \in DOMAIN _all_plugins |->
                           IF category.some /\ c # category.s THEN _all_plugins[c]
                           ELSE EmptyMap]
    /\ pc' = "unloaded"
    /\ ret' = NoErr
    /\ UNCHANGED <<instances, load_errors, tree, src, iterRev>>

PluginNext ==
    \/ \E classes \in ClassLists, category \in CategoryArgs, overwrite \in BOOLEAN :
          LoadPluginClasses(classes, category, overwrite)
    \/ \E name \in {"x", "y"}, i \in DOMAIN Categories : UnloadPlugin(name, Categories[i])
    \/ \E category \in CategoryArgs : UnloadAllPlugins(category)

PluginSpec == PluginInit /\ [][PluginNext]_vars

----------------------------------------------------------------------------
(* Calls on the MockPath objects of one mock file system *)

MaxObjects == 3

Names == {"a", "b"}

\* the names given to rename and to the name assignment
NewNames == {"a"}

\* the paths given to joinpath, each already split into its parts
PartLists == {<<".">>} \cup {<<n>> : n \in Names} \cup {<<n, m>> : n, m \in Names}

\* MockPath('root'), MockPath('root', structure=[{'a': []}]),
\* MockPath('root', structure=[MockPath('a', is_file=True)]) and
\* MockPath('root', structure=[{'a': []}, MockPath('b', is_file=True)])
MockTrees ==
    {MockPath(<<>>, <<"root">>, FALSE, TRUE, <<>>, <<>>, NoParent).val.h,
     MockPath(<<>>, <<"root">>, FALSE, TRUE, <<DictItem("a", <<>>)>>, <<>>, NoParent).val.h,
     MockPath(MockPath(<<>>, <<"a">>, TRUE, TRUE, <<>>, <<>>, NoParent).val.h,
              <<"root">>, FALSE, TRUE, <<Item(1)>>, <<>>, NoParent).val.h,
     MockPath(MockPath(<<>>, <<"b">>, TRUE, TRUE, <<>>, <<>>, NoParent).val.h,
              <<"root">>, FALSE, TRUE, <<DictItem("a", <<>>), Item(1)>>, <<>>, NoParent).val.h}

MockInit ==
    /\ pc = "built"
    /\ heap \in MockTrees
    /\ tree = Nothing
    /\ src = Nothing
    /\ flat = <<>>
    /\ dicts = <<>>
    /\ call = NoCall
    /\ ret = NoErr
    /\ iterRev = FALSE

\* the call returns, or raises and leaves the objects as they were
Outcome(fn, r, h) ==
    /\ call' = [NoCall EXCEPT !.fn = fn]
    /\ IF Failed(r)
       THEN pc' = "failed" /\ ret' = r.err /\ UNCHANGED objects
       ELSE pc' = "done" /\ ret' = NoErr /\ objects' = h
    /\ UNCHANGED <<tree, flat, src, dicts, iterRev>>

\* self.joinpath(path)
JoinPath(self, parts) ==
    /\ ~Failed(joinpath(objects, self, parts))
          => Len(joinpath(objects, self, parts).val.h) <= MaxObjects
    /\ Outcome("joinpath", joinpath(objects, self, parts),
               joinpath(objects, self, parts).val.h)

\* self.mkdir(parents)
Mkdir(self, parents) ==
    Outcome("mkdir", mkdir(objects, self, parents), mkdir(objects, self, parents).val)

\* self.touch()
Touch(self) == Outcome("touch", touch(objects, self), touch(objects, self).val)

\* self.unlink()
Unlink(self) == Outcome("unlink", unlink(objects, self), unlink(objects, self).val)

\* self.rmdir()
Rmdir(self) == Outcome("rmdir", rmdir(objects, self), rmdir(objects, self).val)

\* self.add_child(MockPath(name, is_file=is_file))
AddChild(self, name, is_file) ==
    /\ Len(objects) < MaxObjects
    /\ Outcome("add_child",
               add_child(Append(objects, fields(<<name>>, is_file, TRUE, <<>>, NoParent)),
                         self, Len(objects) + 1),
               add_child(Append(objects, fields(<<name>>, is_file, TRUE, <<>>, NoParent)),
                         self, Len(objects) + 1).val)

\* self.copy_from(source)
CopyFrom(self, source) ==
    /\ ~Failed(copy_from(objects, self, source))
          => Len(copy_from(objects, self, source).val) <= MaxObjects
    /\ Outcome("copy_from", copy_from(objects, self, source),
               copy_from(objects, self, source).val)

\* self.copy_to(target)
CopyTo(self, target) ==
    /\ ~Failed(copy_to(objects, self, target))
          => Len(copy_to(objects, self, target).val) <= MaxObjects
    /\ Outcome("copy_to", copy_to(objects, self, target),
               copy_to(objects, self, target).val)

\* self.rename(name)
Rename(self, name) ==
    Outcome("rename", rename(objects, self, name), rename(objects, self, name).val)

\* self.name = name
SetName(self, name) ==
    Outcome("name", Ok(_set_name(objects, self, name)), _set_name(objects, self, name))

\* the calls that make and remove files and folders
FsNext ==
    \/ \E self \in DOMAIN objects, parts \in PartLists : JoinPath(self, parts)
    \/ \E self \in DOMAIN objects, parents \in BOOLEAN : Mkdir(self, parents)
    \/ \E self \in DOMAIN objects : Touch(self)
    \/ \E self \in DOMAIN objects : Unlink(self)
    \/ \E self \in DOMAIN objects : Rmdir(self)

FsSpec == MockInit /\ [][FsNext]_vars

MockNext ==
    \/ FsNext
    \/ \E self \in DOMAIN objects, name \in Names, is_file \in BOOLEAN :
          AddChild(self, name, is_file)
    \/ \E self \in DOMAIN objects, source \in DOMAIN objects : CopyFrom(self, source)
    \/ \E self \in DOMAIN objects, target \in DOMAIN objects : CopyTo(self, target)
    \/ \E self \in DOMAIN objects, name \in NewNames : Rename(self, name)
    \/ \E self \in DOMAIN objects, name \in NewNames : SetName(self, name)

MockSpec == MockInit /\ [][MockNext]_vars

----------------------------------------------------------------------------
(* Properties of flatten followed by unflatten *)

HasPrefix(key) == key.k = "str" /\ StartsWith(key.s, Prefix)

\* the list is one flatten rewrites into a dict of numbered keys
Expands(v, list_of_dicts, all_iters) ==
    /\ v.t = "list"
    /\ all_iters.some \/ (list_of_dicts.some /\ is_list_of_dict_like(v))

\* flatten and unflatten were called in turn, with tuple keys and the same
\* sequence prefix mode
RoundTripDone ==
    /\ call.fn = "unflatten"
    /\ src # Nothing
    /\ call.key_as_tuple
    /\ \/ call.list_of_dicts = None /\ call.all_iters = None /\ call.unlist = None
       \/ /\ call.list_of_dicts = Some(Prefix) /\ call.all_iters = None
          /\ call.unlist = Some(Prefix)
       \/ /\ call.list_of_dicts = None /\ call.all_iters = Some(Prefix)
          /\ call.unlist = Some(Prefix)

RECURSIVE SequencesExpand(_, _, _)
\* every sequence of the structure is of the shape the mode expands
SequencesExpand(v, list_of_dicts, all_iters) ==
    CASE v.t = "dict" ->
            \A x \in DOMAIN v.d : SequencesExpand(v.d[x], list_of_dicts, all_iters)
      [] v.t = "list" ->
            /\ Expands(v, list_of_dicts, all_iters)
            /\ \A i \in DOMAIN v.l : SequencesExpand(v.l[i], list_of_dicts, all_iters)
      [] OTHER -> TRUE

RECURSIVE Faithful(_, _, _, _)
\* The structure has, among the nodes flatten descends into: no empty dict
\* but the root, no empty list, and, when a prefix is in use, no dict whose
\* keys all start with the prefix.
Faithful(v, list_of_dicts, all_iters, isRoot) ==
    IF v.t = "dict"
    THEN /\ isRoot \/ DOMAIN v.d # {}
         /\ (list_of_dicts.some \/ all_iters.some) /\ DOMAIN v.d # {}
               => \E x \in DOMAIN v.d : ~HasPrefix(x)
         /\ \A x \in DOMAIN v.d : Faithful(v.d[x], list_of_dicts, all_iters, FALSE)
    ELSE IF Expands(v, list_of_dicts, all_iters)
    THEN /\ v.l # <<>>
         /\ \A i \in DOMAIN v.l : Faithful(v.l[i], list_of_dicts, all_iters, FALSE)
    ELSE ~isRoot

\* C1, as claimed: unflatten(flatten(T)) with tuple keys and the same
\* sequence prefix mode returns a tree equal to T, for every T whose
\* sequences are of the shape the mode expands.
RoundTripAsClaimed ==
    RoundTripDone /\ SequencesExpand(src, call.list_of_dicts, call.all_iters)
        => pc = "unflattened" /\ tree = src

\* C1, amended: unflatten(flatten(T)) with tuple keys and the same sequence
\* prefix mode returns a tree equal to T, for every T in which flatten meets
\* no empty dict below the root, no empty list it expands and no dict whose
\* keys all start with the prefix.
RoundTrip ==
    RoundTripDone /\ Faithful(src, call.list_of_dicts, call.all_iters, TRUE)
        => pc = "unflattened" /\ tree = src

\* a list nested in a dict went through flatten and unflatten in all-sequences mode
RoundTripWitness ==
    /\ RoundTripDone
    /\ call.all_iters.some
    /\ src = D(Ka :> L(<<I(2), I(1)>>))
    /\ tree = src
    /\ iterRev

RECURSIVE LeafPaths(_, _, _)
\* the <<path, leaf>> pairs of a structure: the paths lead through the dicts
\* and through the lists the mode expands
LeafPaths(v, list_of_dicts, all_iters) ==
    IF v.t = "dict"
    THEN UNION {{<< <<x>> \o pl[1], pl[2] >> :
                    pl \in LeafPaths(v.d[x], list_of_dicts, all_iters)}
                : x \in DOMAIN v.d}
    ELSE IF Expands(v, list_of_dicts, all_iters)
    THEN UNION {{<< <<KS((IF all_iters.some THEN all_iters.s ELSE list_of_dicts.s)
                         \o IntToStr(i - 1))>> \o pl[1], pl[2] >> :
                    pl \in LeafPaths(v.l[i], list_of_dicts, all_iters)}
                : i \in DOMAIN v.l}
    ELSE {<< <<>>, v >>}

\* the key flatten gives a path: the path, or its parts joined by the separator
\* (a path of one part is its part)
PathKey(path, key_as_tuple) ==
    IF key_as_tuple THEN path
    ELSE IF Len(path) = 1 THEN path[1]
    ELSE KS(Join([i \in DOMAIN path |-> KeyStr(path[i])], Sep))

\* flatten returned one entry per leaf, keyed by the leaf's path
OneEntryPerLeaf ==
    LET leaves == LeafPaths(src, call.list_of_dicts, call.all_iters)
    IN /\ pc = "flattened"
       /\ DOMAIN flat = {PathKey(pl[1], call.key_as_tuple) : pl \in leaves}
       /\ \A pl \in leaves : flat[PathKey(pl[1], call.key_as_tuple)] = pl[2]
       /\ Cardinality(DOMAIN flat) = Cardinality(leaves)

\* every key on the way to a leaf is a string without the separator
StringKeys(v, list_of_dicts, all_iters) ==
    \A pl \in LeafPaths(v, list_of_dicts, all_iters) :
        \A i \in DOMAIN pl[1] :
            /\ pl[1][i].k = "str"
            /\ \A j \in DOMAIN pl[1][i].s : <<pl[1][i].s[j]>> # Sep

\* C6, as claimed: for every mapping tree and either key mode, flatten
\* returns one entry per leaf, distinct leaves under distinct keys, each key
\* the full path of its leaf and each value the leaf.
FlattenLeavesAsClaimed ==
    call.fn = "flatten" /\ is_dict_like(src) => OneEntryPerLeaf

\* C6, amended: flatten returns one entry per leaf, keyed by the leaf's full
\* path, for every mapping tree with tuple keys, and with delimited string
\* keys when every key is a string that does not contain the separator.
FlattenLeaves ==
    /\ call.fn = "flatten"
    /\ is_dict_like(src)
    /\ call.key_as_tuple \/ StringKeys(src, call.list_of_dicts, call.all_iters)
    => OneEntryPerLeaf

\* a nested dict with two leaves was flattened to two delimited string keys
FlattenLeavesWitness ==
    /\ call.fn = "flatten"
    /\ ~call.key_as_tuple
    /\ src = D(Ka :> D(Ka :> I(1) @@ Kp0 :> I(2)))
    /\ DOMAIN flat = {KS(<<"a", ".", "a">>), KS(<<"a", ".", "p", "0">>)}

----------------------------------------------------------------------------
(* Properties of unflatten on an arbitrary flat mapping *)

\* unflatten was called on a flat mapping with tuple keys
UnflattenDone == call.fn = "unflatten" /\ src = Nothing /\ call.key_as_tuple

IsProperPrefix(P, Q) == Len(P) < Len(Q) /\ SubSeq(Q, 1, Len(P)) = P

RECURSIVE Lookup(_, _)
\* the value a structure of nested dicts holds at a path, if it holds one
Lookup(v, path) ==
    IF path = <<>> THEN v
    ELSE IF v.t = "dict" /\ path[1] \in DOMAIN v.d THEN Lookup(v.d[path[1]], Tail(path))
    ELSE Nothing

\* C3: for any flat mapping with tuple keys, unflatten gives the same outcome
\* whichever order its entries are iterated in: the same tree, or the same
\* conflict error.
UnflattenOrderIndependent ==
    UnflattenDone =>
        \A order \in Orders(DOMAIN flat \ {<<>>}) :
            LET r == unflatten(flat, TRUE, Sep, call.unlist, order)
            IN r.val = tree /\ r.err = ret

\* C4: whenever a flat mapping holds a non-mapping value at a path P and an
\* entry at a path that extends P, unflatten fails with the child conflict
\* KeyError and returns no tree.
ConflictRuleA ==
    /\ UnflattenDone
    /\ \E P \in DOMAIN flat, Q \in DOMAIN flat :
          ~is_dict_like(flat[P]) /\ IsProperPrefix(P, Q)
    => pc = "failed" /\ ret.type = "KeyError" /\ tree = Nothing

\* the result of unflatten's loop before the last entry it visits
BeforeLast ==
    unflatten_loop(IF <<>> \in DOMAIN flat THEN flat[<<>>] ELSE D(EmptyMap), flat,
                   SubSeq(call.order, 1, Len(call.order) - 1), TRUE, Sep)

\* C5: when unflatten places a value at a final key that already holds a
\* value, the stored result is the recursive merge of the two if both are
\* mappings and the merge succeeds; otherwise unflatten fails with the child
\* conflict KeyError that names the path and the two values.
ConflictRuleB ==
    LET parts == call.order[Len(call.order)]
        old == Lookup(BeforeLast.val, parts)
        new == flat[parts]
        merged == merge(<<old, new>>, FALSE, FALSE)
    IN  /\ UnflattenDone
        /\ call.unlist = None
        /\ call.order # <<>>
        /\ ~Failed(BeforeLast)
        /\ old # Nothing
        => IF is_dict_like(old) /\ is_dict_like(new) /\ ~Failed(merged)
           THEN pc = "unflattened" /\ Lookup(tree, parts) = merged.val
           ELSE /\ pc = "failed"
                /\ ret.type = "KeyError"
                /\ ret.path = parts
                /\ ret.vals = {old, new}

\* what unflatten builds before it recreates the lists
RawTree == unflatten(flat, TRUE, Sep, None, call.order)

\* the number that follows the prefix in a key, -1 if none does
SuffixOf(key) == StrToInt(StrRemove(key.s, Prefix))

RECURSIVE Recreated(_, _)
\* t is m post-processed: a dict whose keys all start with the prefix is a
\* list of its post-processed values in ascending order of the suffixes, any
\* other dict is a dict of its post-processed values
Recreated(m, t) ==
    IF ~is_dict_like(m) THEN t = m
    ELSE IF \A x \in DOMAIN m.d : HasPrefix(x)
    THEN /\ t.t = "list"
         /\ Len(t.l) = Cardinality(DOMAIN m.d)
         /\ \E f \in [1..Len(t.l) -> DOMAIN m.d] :
               /\ \A i, j \in 1..Len(t.l) :
                     i < j => f[i] # f[j] /\ SuffixOf(f[i]) <= SuffixOf(f[j])
               /\ \A i \in 1..Len(t.l) : Recreated(m.d[f[i]], t.l[i])
    ELSE /\ t.t = "dict"
         /\ DOMAIN t.d = DOMAIN m.d
         /\ \A x \in DOMAIN m.d : Recreated(m.d[x], t.d[x])

RECURSIVE NumericKeys(_)
\* in every dict whose keys all start with the prefix, every key is the
\* prefix and a number
NumericKeys(m) ==
    is_dict_like(m) =>
        /\ (\A x \in DOMAIN m.d : HasPrefix(x)) => \A x \in DOMAIN m.d : SuffixOf(x) >= 0
        /\ \A x \in DOMAIN m.d : NumericKeys(m.d[x])

\* unflatten was called with a list prefix on a flat mapping that is not
\* empty, and built a tree to post-process
RecreateDone ==
    /\ UnflattenDone
    /\ call.unlist = Some(Prefix)
    /\ DOMAIN flat # {}
    /\ ~Failed(RawTree)

\* C7, as claimed: after unflatten with a list prefix p, a mapping node of
\* the rebuilt tree is a sequence exactly when all of its keys start with p,
\* its elements in ascending order of the numeric suffixes of their keys,
\* and the other mapping nodes stay mappings with post-processed values.
RecreateListsAsClaimed ==
    RecreateDone => pc = "unflattened" /\ Recreated(RawTree.val, tree)

\* C7, amended: the same, when in every mapping node whose keys all start
\* with p every key is p followed by a number; with any other such key
\* unflatten fails with a ValueError.
RecreateLists ==
    RecreateDone =>
        IF NumericKeys(RawTree.val)
        THEN pc = "unflattened" /\ Recreated(RawTree.val, tree)
        ELSE pc = "failed" /\ ret.type = "ValueError"

\* two numbered entries came back as a list in the order of their numbers
RecreateListsWitness ==
    /\ RecreateDone
    /\ flat = (<<Kp1>> :> I(1) @@ <<Kp0>> :> I(2))
    /\ tree = L(<<I(2), I(1)>>)
    /\ iterRev

----------------------------------------------------------------------------
(* Properties of merge *)

\* merge was called and has returned or raised
MergeDone == call.fn = "merge" /\ pc \in {"merged", "failed"}

\* C2: after merge returns or raises, each dict of its input list equals,
\* nested dicts and lists included, its value before the call.
MergeLeavesInputs ==
    MergeDone => \A i \in DOMAIN dicts : Deref(heap, dicts[i]) = src.l[i]

RECURSIVE PathsOf(_)
\* the paths of the entries of a dict, nested ones included
PathsOf(v) ==
    IF v.t # "dict" THEN {}
    ELSE UNION {{<<x>>} \cup {<<x>> \o q : q \in PathsOf(v.d[x])} : x \in DOMAIN v.d}

\* str of the keys of a path joined by dots
Dotted(P) == Join([i \in DOMAIN P |-> KeyStr(P[i])], <<".">>)

\* two values at one path that merge accepts without overwriting
Reconciled(x, y, append) ==
    \/ x = y
    \/ x.t = "dict" /\ y.t = "dict"
    \/ x.t = "list" /\ y.t = "list" /\ append

\* dicts i and j hold, at path P, values that are not reconciled
ConflictAt(ts, i, j, P, append) ==
    /\ Lookup(ts[i], P) # Nothing
    /\ Lookup(ts[j], P) # Nothing
    /\ ~Reconciled(Lookup(ts[i], P), Lookup(ts[j], P), append)

\* C8: merge with overwrite=False fails with a ValueError naming the dotted
\* path and both values whenever two dicts of the list hold, at the same
\* path, differing values that are not both mappings (and not both lists
\* under append); it returns a tree only when there is no such pair.
MergeConflict ==
    LET ts == src.l
        conflicts == {<<i, j, P>> \in UNION {{<<i, j, P>> : P \in PathsOf(ts[j])}
                                             : i \in DOMAIN ts, j \in DOMAIN ts} :
                         i < j /\ ConflictAt(ts, i, j, P, call.append)}
    IN  MergeDone /\ ~call.overwrite =>
           /\ pc = "failed" <=> conflicts # {}
           /\ pc = "merged" => tree # Nothing
           /\ pc = "failed" =>
                 /\ ret.type = "ValueError"
                 /\ \E c \in conflicts :
                       LET held == merge(SubSeq(ts, 1, c[2] - 1), FALSE, call.append)
                       IN /\ ret.dotted = Dotted(c[3])
                          /\ ret.new = Lookup(ts[c[2]], c[3])
                          /\ ret.old = Lookup(held.val, c[3])
                          /\ ~Reconciled(ret.old, ret.new, call.append)

\* two dicts with different values at a.b were merged without overwrite
MergeConflictWitness ==
    /\ MergeDone
    /\ ~call.overwrite
    /\ src.l = <<D(Ka :> D(Kb :> I(1))), D(Ka :> D(Kb :> I(2)))>>
    /\ pc = "failed"
    /\ ret.dotted = <<"a", ".", "b">>
    /\ ret.old = I(1)
    /\ ret.new = I(2)

\* C9: for every tree A, merge([A, A], overwrite=False) returns a tree
\* equal to A.
MergeIdempotent ==
    /\ MergeDone
    /\ ~call.overwrite
    /\ ~call.append
    /\ Len(src.l) = 2
    /\ src.l[1] = src.l[2]
    => pc = "merged" /\ tree = src.l[1]

\* a nested dict with a list was merged with itself
MergeIdempotentWitness ==
    /\ MergeDone
    /\ ~call.overwrite
    /\ ~call.append
    /\ src.l = <<D(Ka :> D(Kb :> L(<<I(1)>>))), D(Ka :> D(Kb :> L(<<I(1)>>)))>>
    /\ dicts[1] = dicts[2]
    /\ tree = src.l[1]

RECURSIVE Overwritten(_, _, _)
\* x with y written over it: mappings are combined key by key, lists are
\* added when lists_add, any other value of y replaces the value of x
Overwritten(x, y, lists_add) ==
    IF x.t = "dict" /\ y.t = "dict"
    THEN D([k \in DOMAIN x.d \cup DOMAIN y.d |->
              IF k \notin DOMAIN y.d THEN x.d[k]
              ELSE IF k \notin DOMAIN x.d THEN y.d[k]
              ELSE Overwritten(x.d[k], y.d[k], lists_add)])
    ELSE IF lists_add /\ x.t = "list" /\ y.t = "list" THEN L(x.l \o y.l)
    ELSE y

RECURSIVE OverwrittenAll(_, _)
\* the dicts of a list written over one another from left to right
OverwrittenAll(ts, lists_add) ==
    IF Len(ts) = 1 THEN ts[1]
    ELSE Overwritten(OverwrittenAll(SubSeq(ts, 1, Len(ts) - 1), lists_add),
                     ts[Len(ts)], lists_add)

\* a step of the fold with overwrite=True is about to be taken
OverwriteStep == pc = "reduce" /\ call.next <= Len(dicts) /\ call.overwrite

\* the accumulated result and the next dict of the fold
Accumulated == Deref(heap, call.outdict)
NextDict == Deref(heap, dicts[call.next])

\* C10, as claimed: with overwrite=True merge raises no conflict, and at
\* every key where the accumulated result and the next dict hold differing
\* values that are not both mappings the result takes the next dict's value,
\* so that the last dict that conflicts at a key wins.
MergeOverwriteAsClaimed ==
    [][/\ OverwriteStep =>
            /\ pc' # "failed"
            /\ \A P \in PathsOf(NextDict) :
                  /\ Lookup(Accumulated, P) # Nothing
                  /\ Lookup(Accumulated, P) # Lookup(NextDict, P)
                  /\ ~(Lookup(Accumulated, P).t = "dict" /\ Lookup(NextDict, P).t = "dict")
                  => Lookup(Accumulated', P) = Lookup(NextDict, P)
       /\ pc' = "merged" /\ call.overwrite
            /\ (\A i, j \in DOMAIN dicts : i # j => dicts[i] # dicts[j])
            => tree' = OverwrittenAll(src.l, FALSE)]_vars

\* C10, amended: the same, but where the two values are both lists and
\* append is set the result holds the accumulated list followed by the next
\* dict's list.
MergeOverwrite ==
    [][/\ OverwriteStep =>
            /\ pc' # "failed"
            /\ \A P \in PathsOf(NextDict) :
                  /\ Lookup(Accumulated, P) # Nothing
                  /\ Lookup(Accumulated, P) # Lookup(NextDict, P)
                  /\ ~(Lookup(Accumulated, P).t = "dict" /\ Lookup(NextDict, P).t = "dict")
                  => Lookup(Accumulated', P) =
                        Overwritten(Lookup(Accumulated, P), Lookup(NextDict, P), call.append)
       /\ pc' = "merged" /\ call.overwrite
            /\ (\A i, j \in DOMAIN dicts : i # j => dicts[i] # dicts[j])
            => tree' = OverwrittenAll(src.l, call.append)]_vars

\* three dicts with different values at one key were merged with overwrite
MergeOverwriteWitness ==
    /\ MergeDone
    /\ call.overwrite
    /\ src.l = <<D(Ka :> I(1)), D(Ka :> I(2)), D(Ka :> L(<<I(1)>>))>>
    /\ tree = D(Ka :> L(<<I(1)>>))

----------------------------------------------------------------------------
(* Properties of the filtering family *)

\* the input is one flatten accepts under the call's list prefix
Flattens(v, list_of_dicts) ==
    is_dict_like(v) \/ (list_of_dicts.some /\ is_list_of_dict_like(v))

\* the leaves of the input of the last call, as <<path, leaf>> pairs
SrcLeaves == LeafPaths(src, call.list_of_dicts, None)

RECURSIVE ShellMatch(_, _)
\* the string is matched by the shell pattern: * stands for any run of
\* characters, ? for any one character
ShellMatch(str, pattern) ==
    IF pattern = <<>> THEN str = <<>>
    ELSE LET n == Len(pattern)
             c == pattern[n]
             front == SubSeq(pattern, 1, n - 1)
         IN IF c = "*"
            THEN \E i \in 0..Len(str) : ShellMatch(SubSeq(str, 1, i), front)
            ELSE /\ str # <<>>
                 /\ c = "?" \/ c = str[Len(str)]
                 /\ ShellMatch(SubSeq(str, 1, Len(str) - 1), front)

\* the key matches the segment of a path
KeyMatches(key, segment, wildcards) ==
    \/ key = segment
    \/ wildcards /\ key.k = "str" /\ segment.k = "str" /\ ShellMatch(segment.s, key.s)

\* the tree is the unflatten of exactly these <<path, leaf>> pairs
IsUnflattenOf(t, pairs, list_of_dicts) ==
    LET paths == {pl[1] : pl \in pairs}
        newd == [path \in paths |-> (CHOOSE pl \in pairs : pl[1] = path)[2]]
    IN \A order \in Orders(paths \ {<<>>}) :
          unflatten(newd, TRUE, Sep, list_of_dicts, order) = Ok(t)

\* the pairs filter_keys is to keep
KeysKept ==
    {pl \in SrcLeaves :
        \E i \in DOMAIN call.keys, j \in DOMAIN pl[1] :
            KeyMatches(call.keys[i], pl[1][j], call.use_wildcards)}

\* C11: filter_keys keeps a flattened (path, value) pair if and only if one
\* of the given keys matches one segment of the path (by equality, or as a
\* shell pattern with * and ? when wildcards are on), and returns the
\* unflatten of exactly the kept pairs.
FilterKeysKeepsMatches ==
    call.fn = "filter_keys" /\ Flattens(src, call.list_of_dicts)
    => pc = "filtered" /\ IsUnflattenOf(tree, KeysKept, call.list_of_dicts)

\* the pattern _* kept the leaf under the list element and dropped the other
FilterKeysKeepsMatchesWitness ==
    /\ pc = "filtered"
    /\ call.fn = "filter_keys"
    /\ call.use_wildcards
    /\ call.keys = <<K1, Klist>>
    /\ src = D(Ka :> L(<<D(Kb :> I(1))>>) @@ Kb :> I(2))
    /\ tree = D(Ka :> L(<<D(Kb :> I(1))>>))

\* the last call was filter_keyvals, on an input flatten accepts
KeyvalsDone == call.fn = "filter_keyvals" /\ Flattens(src, call.list_of_dicts)

\* the leaf's (terminal key, value) is one of the given pairs
InPairs(pl) ==
    \E i \in DOMAIN call.vals : call.vals[i] = <<pl[1][Len(pl[1])], pl[2]>>

\* C12: filter_keyvals without keep_siblings (and without a tolerance) keeps
\* a leaf if and only if its (terminal key, value) equals one of the given
\* pairs, for any list of pairs, lists with several pairs of one key included.
KeyvalsKeepsPairs ==
    KeyvalsDone /\ ~call.keep_siblings /\ ~call.error.some
    => /\ pc = "filtered"
       /\ IsUnflattenOf(tree, {pl \in SrcLeaves : InPairs(pl)}, call.list_of_dicts)

\* no two of the given pairs have the same key
DistinctPairKeys ==
    \A i, j \in DOMAIN call.vals : call.vals[i][1] = call.vals[j][1] => i = j

\* the target lies in the closed range around the value
InClosedRange(t, v, e) ==
    t.t = "int" /\ v.t = "int" /\ t.i >= v.i - e /\ t.i <= v.i + e

\* C13: filter_keyvals with an error tolerance e keeps a leaf with terminal
\* key k and numeric value v for a pair (k, t) whenever t lies in the closed
\* range [v - e, v + e], the two end points included.
KeyvalsKeepsClosedRange ==
    /\ KeyvalsDone
    /\ call.error.some
    /\ ~call.keep_siblings
    /\ call.list_of_dicts = None
    /\ DistinctPairKeys
    => \A pl \in SrcLeaves, i \in DOMAIN call.vals :
          /\ call.vals[i][1] = pl[1][Len(pl[1])]
          /\ InClosedRange(call.vals[i][2], pl[2], call.error.n)
          => Lookup(tree, pl[1]) = pl[2]

\* the leaf is one filter_keyvals takes to match the given pairs
Matching(pl) ==
    filter_keyvals_is_in(pl[1][Len(pl[1])], pl[2], dict_of(dict_items(call.vals)),
                         call.error)

\* C14, as claimed: with keep_siblings filter_keyvals keeps exactly the
\* matching leaves and the leaves whose parent path is the parent path of a
\* matching leaf.
KeepSiblingsAsClaimed ==
    KeyvalsDone /\ call.keep_siblings
    => /\ pc = "filtered"
       /\ IsUnflattenOf(tree,
             {pl \in SrcLeaves : \E m \in SrcLeaves :
                 Matching(m) /\ parent_of(pl[1]) = parent_of(m[1])},
             call.list_of_dicts)

\* C14, amended: with keep_siblings filter_keyvals keeps exactly the leaves
\* whose path starts with the parent path of a matching leaf (the matching
\* leaves, their siblings and every leaf below a sibling); leaves under no
\* such parent path are dropped.
KeepSiblings ==
    KeyvalsDone /\ call.keep_siblings
    => /\ pc = "filtered"
       /\ IsUnflattenOf(tree,
             {pl \in SrcLeaves : \E m \in SrcLeaves :
                 Matching(m) /\ IsProperPrefix(parent_of(m[1]), pl[1])},
             call.list_of_dicts)

\* the leaf b: 2, below a sibling of the matching leaf b: 1, was kept
KeepSiblingsWitness ==
    /\ pc = "filtered"
    /\ call.fn = "filter_keyvals"
    /\ call.keep_siblings
    /\ call.vals = << <<Kb, I(1)>> >>
    /\ src = D(Ka :> D(Kb :> I(1) @@ Ka :> D(Kb :> I(2))))
    /\ tree = src

\* the last call was remove_keyvals, on a dict
RemoveKeyvalsDone == call.fn = "remove_keyvals" /\ is_dict_like(src)

\* C15, as claimed: remove_keyvals removes exactly the leaf paths whose
\* terminal (key, value) pair is in keyvals and keeps every other leaf path
\* of the input with its value.
RemoveKeyvalsAsClaimed ==
    RemoveKeyvalsDone
    => /\ pc = "filtered"
       /\ IsUnflattenOf(tree, {pl \in SrcLeaves : ~InPairs(pl)}, call.list_of_dicts)

\* C15, amended: remove_keyvals removes exactly the leaf paths whose first
\* key is the first key of a leaf path whose terminal (key, value) pair is in
\* keyvals (the whole top-level branch of such a leaf), and keeps every other
\* leaf path of the input with its value.
RemoveKeyvalsBranches ==
    RemoveKeyvalsDone
    => /\ pc = "filtered"
       /\ IsUnflattenOf(tree,
             {pl \in SrcLeaves :
                 ~\E m \in SrcLeaves : InPairs(m) /\ m[1][1] = pl[1][1]},
             call.list_of_dicts)

\* the pair (b, 1) took the whole branch under a with it, the leaf b: 2 at
\* the top stayed
RemoveKeyvalsBranchesWitness ==
    /\ pc = "filtered"
    /\ call.fn = "remove_keyvals"
    /\ call.vals = << <<Kb, I(1)>> >>
    /\ src = D(Ka :> D(Kb :> I(1) @@ Ka :> I(1)) @@ Kb :> I(2))
    /\ tree = D(Kb :> I(2))

\* the last call was remove_keys, on a dict
RemoveKeysDone == call.fn = "remove_keys" /\ is_dict_like(src)

\* the path without the segments one of the given keys matches
Remaining(path) ==
    SelectSeq(path, LAMBDA segment :
        ~\E i \in DOMAIN call.keys :
            KeyMatches(call.keys[i], segment, call.use_wildcards))

\* C16: remove_keys maps every leaf of the input with a non-matching path
\* segment to the result, at the path left when the matching segments are
\* deleted, with its value; leaves whose every segment matches are dropped
\* and no other leaf is lost.
RemoveKeysKeepsLeaves ==
    RemoveKeysDone /\ call.list_of_dicts = None
    => LET kept == {pl \in SrcLeaves : Remaining(pl[1]) # <<>>}
       IN /\ pc = "filtered"
          /\ LeafPaths(tree, None, None) = {<<Remaining(pl[1]), pl[2]>> : pl \in kept}
          /\ Cardinality(LeafPaths(tree, None, None)) = Cardinality(kept)

\* the operations of the filtering family
FilterFamily == {"filter_keys", "filter_values", "filter_keyvals", "filter_paths",
                 "remove_keys", "remove_keyvals", "remove_paths"}

\* the second call ends as the first did: with an equal tree, or both raise
SameOutput ==
    \/ ret.type = "none" /\ ret'.type = "none" /\ tree' = tree
    \/ ret.type # "none" /\ ret'.type # "none"

\* C17: every operation of the filtering family is deterministic in the
\* content of its input: two calls with equal arguments on equal trees give
\* equal outputs, whatever order the dicts' entries are iterated in.
FilterDeterministic ==
    [][pc = "reordered" /\ pc' # "reordered" /\ call.fn \in FilterFamily
       => SameOutput]_vars

\* the path with every segment that is a key of keymap replaced by its name
Renamed(path) ==
    [i \in DOMAIN path |->
        IF path[i] \in DOMAIN call.keymap THEN call.keymap[path[i]] ELSE path[i]]

\* C18: rename_keys returns a tree whose leaves are exactly the input's
\* leaves, each at the path with every segment that is a key of keymap
\* replaced by its mapped name, each with its value; no leaf is dropped.
RenameKeysKeepsLeaves ==
    call.fn = "rename_keys" /\ is_dict_like(src) /\ call.list_of_dicts = None
    => /\ pc = "filtered"
       /\ LeafPaths(tree, None, None) = {<<Renamed(pl[1]), pl[2]>> : pl \in SrcLeaves}
       /\ Cardinality(LeafPaths(tree, None, None)) = Cardinality(SrcLeaves)

----------------------------------------------------------------------------
(* Properties of apply and combine_apply *)

\* some leaf of the input ends in leaf_key, and the key new_name is already
\* there under the parent of that leaf
NameTaken ==
    /\ call.new_name.some
    /\ call.new_name.key # call.leaf_key
    /\ \E pl \in SrcLeaves, ql \in SrcLeaves :
          /\ leaf_of(pl[1]) = call.leaf_key
          /\ starts_with(ql[1], Append(parent_of(pl[1]), call.new_name.key))

\* C19: apply with a new_name fails, instead of replacing a value, when the
\* computed entry would land on a key new_name that already exists beside
\* leaf_key under the same parent.
ApplyFailsOnTakenName ==
    call.fn = "apply" /\ Flattens(src, call.list_of_dicts) /\ NameTaken
    => pc = "failed"


CombineDone == call.fn = "combine_apply" /\ is_dict_like(src)

\* the paths of the dicts of the input that hold a leaf
Parents == {parent_of(pl[1]) : pl \in SrcLeaves}

\* the sub-dict at path p: the leaf entries of the dict there
SubDict(p) ==
    [x \in {leaf_of(pl[1]) : pl \in {ql \in SrcLeaves : parent_of(ql[1]) = p}} |->
        (CHOOSE pl \in SrcLeaves : pl[1] = Append(p, x))[2]]

LeafKeySet == {call.leaf_keys[j] : j \in 1..Len(call.leaf_keys)}

\* the sub-dicts that contain all of leaf_keys
Combined == {p \in Parents : LeafKeySet \subseteq DOMAIN SubDict(p)}

\* the keys of the sub-dict at p once its leaf keys were popped or read
KeysLeft(p) ==
    IF call.remove_lkeys THEN DOMAIN SubDict(p) \ LeafKeySet ELSE DOMAIN SubDict(p)

\* fn(*values) returns for every sub-dict it is called on
FnReturns ==
    \A p \in Combined : \A x \in LeafKeySet : SubDict(p)[x].t = "int"

\* the value of fn(*values) for the sub-dict at p
FnOf(p) == I(Sum([j \in 1..Len(call.leaf_keys) |-> SubDict(p)[call.leaf_keys[j]]]))

\* the leaves of the tree whose sub-dicts containing all of leaf_keys had
\* fn(*values) stored under new_name and the other sub-dicts are unchanged
CombinedLeaves ==
    UNION {IF p \in Combined
           THEN {<<Append(p, x), SubDict(p)[x]>> : x \in KeysLeft(p) \ {call.new_name.key}}
                \cup {<<Append(p, call.new_name.key), FnOf(p)>>}
           ELSE {<<Append(p, x), SubDict(p)[x]>> : x \in DOMAIN SubDict(p)}
           : p \in Parents}

\* new_name is the key of a nested dict beside the entries of a sub-dict
\* that contains all of leaf_keys
NameOfNestedDict ==
    \E p \in Combined, ql \in SrcLeaves :
        /\ starts_with(ql[1], Append(p, call.new_name.key))
        /\ Len(ql[1]) > Len(p) + 1

\* C20: combine_apply fails, and returns no tree, whenever a sub-dict that
\* contains all of leaf_keys already contains new_name and overwrite is
\* false; with overwrite true it stores fn(*values) under new_name in each
\* such sub-dict and leaves sub-dicts lacking any of leaf_keys unchanged.
CombineApplyAsClaimed ==
    CombineDone
    => /\ (\E p \in Combined : call.new_name.key \in DOMAIN SubDict(p)) /\ ~call.overwrite
          => pc = "failed"
       /\ call.overwrite /\ FnReturns
          => pc = "filtered" /\ LeafPaths(tree, None, None) = CombinedLeaves

\* C20, amended: combine_apply fails whenever a sub-dict that contains all
\* of leaf_keys still contains new_name once the leaf keys were taken out of
\* it (remove_lkeys true) or read from it (remove_lkeys false) and overwrite
\* is false; with overwrite true it stores fn(*values) under new_name in each
\* sub-dict that contains all of leaf_keys and leaves the others unchanged,
\* unless new_name is also the key of a nested dict beside such a sub-dict's
\* entries, where rebuilding the tree fails with a KeyError or a TypeError.
CombineApplyStores ==
    CombineDone
    => /\ (\E p \in Combined : call.new_name.key \in KeysLeft(p)) /\ ~call.overwrite
          => pc = "failed"
       /\ call.overwrite /\ FnReturns /\ ~NameOfNestedDict
          => pc = "filtered" /\ LeafPaths(tree, None, None) = CombinedLeaves
       /\ call.overwrite /\ FnReturns /\ NameOfNestedDict
          => pc = "failed" /\ ret.type \in {"KeyError", "TypeError"}

\* new_name is one of the leaf keys that were popped: the call succeeds
\* without overwrite
CombineApplyStoresWitness ==
    /\ CombineDone
    /\ src = D(Ka :> I(1) @@ Kb :> I(2))
    /\ call.leaf_keys = <<Ka, Kb>> /\ call.new_name = Key(Ka)
    /\ call.remove_lkeys /\ ~call.overwrite
    /\ pc = "filtered"
    /\ tree = D(Ka :> I(3))

----------------------------------------------------------------------------
(* Properties of extract *)

ExtractDone == call.fn = "extract" /\ is_dict_like(src)

RECURSIVE PresentIn(_, _)
\* the path leads through mappings of d to an entry
PresentIn(d, path) ==
    /\ path # <<>>
    /\ d.t = "dict"
    /\ path[1] \in DOMAIN d.d
    /\ Len(path) = 1 \/ PresentIn(d.d[path[1]], Tail(path))

RECURSIVE ValueAt(_, _)
ValueAt(d, path) == IF path = <<>> THEN d ELSE ValueAt(d.d[path[1]], Tail(path))

RECURSIVE Without(_, _)
\* d with only the entry at path removed from its parent mapping
Without(d, path) ==
    IF Len(path) = 1 THEN D([x \in DOMAIN d.d \ {path[1]} |-> d.d[x]])
    ELSE D([d.d EXCEPT ![path[1]] = Without(d.d[path[1]], Tail(path))])

\* C21: extract(d, path) on a path present in d returns a remainder equal to
\* d with only the entry at path removed from its parent mapping, and an
\* extracted mapping with the single entry {path[-1]: value of d at path}.
ExtractSplits ==
    ExtractDone /\ PresentIn(src, call.paths[1])
    => /\ pc = "filtered"
       /\ tree = L(<<Without(src, call.paths[1]),
                     D(call.paths[1][Len(call.paths[1])] :> ValueAt(src, call.paths[1]))>>)

\* an entry two levels down is taken out and its sibling is left
ExtractSplitsWitness ==
    /\ ExtractDone
    /\ call.paths[1] = <<Kb, Ka>>
    /\ src = D(Ka :> I(1) @@ Kb :> D(Ka :> I(2) @@ Kb :> I(1)))
    /\ tree = L(<<D(Ka :> I(1) @@ Kb :> D(Kb :> I(1))), D(Ka :> I(2))>>)

\* C22: extract fails with KeyError whenever some segment of path cannot be
\* followed in the tree, whether a key is missing from a mapping, the walk
\* reaches a leaf before the path ends, or the path is empty, and the input
\* tree is unchanged.
ExtractKeyError ==
    ExtractDone /\ pc = "failed" => ret.type = "KeyError"

----------------------------------------------------------------------------
(* Properties of diff *)

DiffDone == call.fn = "diff"

\* the entries of one list of the outcome
Reported(name) ==
    IF name \in DOMAIN flat THEN {flat[name][i] : i \in DOMAIN flat[name]} ELSE {}

\* no entry is listed twice
ReportedOnce == \A name \in DOMAIN flat : Len(flat[name]) = Cardinality(Reported(name))

NewLeaves == LeafPaths(tree, None, Some(Prefix))
OldLeaves == LeafPaths(src, None, Some(Prefix))

\* C23: diff classifies every path of the two all-sequences-flattened trees
\* exactly once: a path only in new_dict is an insertion with its value, a
\* path only in old_dict is a deletion with its value, a path in both with
\* unequal values is a change whose pair is (value in new_dict, value in
\* old_dict), and a path in both with equal values is reported nowhere.
DiffClassifies ==
    DiffDone
    => /\ pc = "diffed"
       /\ ReportedOnce
       /\ DOMAIN flat \subseteq {"insertions", "deletions", "changes"}
       /\ Reported("insertions") = {e \in NewLeaves : \A o \in OldLeaves : o[1] # e[1]}
       /\ Reported("deletions") = {o \in OldLeaves : \A e \in NewLeaves : o[1] # e[1]}
       /\ Reported("changes") =
             {<<ep[1][1], <<ep[1][2], ep[2][2]>> >> :
                 ep \in {x \in NewLeaves \X OldLeaves : x[1][1] = x[2][1] /\ x[1][2] # x[2][2]}}

\* an outcome with an insertion, a deletion and a change
DiffClassifiesWitness ==
    /\ DiffDone
    /\ DOMAIN flat = {"insertions", "deletions", "changes"}
    /\ tree = D(Ka :> I(1) @@ Kp0 :> I(2))
    /\ src = D(Ka :> I(2) @@ K1 :> I(1))

\* C28: diff(new_dict, old_dict) returns the empty outcome if and only if
\* the two trees are equal: any two trees that differ anywhere, including in
\* an empty mapping or an empty sequence, give at least one insertion,
\* deletion, change or uncomparable entry.
DiffEmptyIffEqual ==
    DiffDone /\ pc = "diffed" => (DOMAIN flat = {} <=> tree = src)

----------------------------------------------------------------------------
(* Properties of split_lists *)

SplitKeySet == {call.keys[i] : i \in DOMAIN call.keys}

\* the parent mappings that contain every key of split_keys
SplitParents == {p \in Parents : SplitKeySet \subseteq DOMAIN SubDict(p)}

\* two of the split keys under p hold lists of different lengths
Mismatch(p) ==
    /\ p \in SplitParents
    /\ \E x, y \in SplitKeySet :
          /\ SubDict(p)[x].t = "list" /\ SubDict(p)[y].t = "list"
          /\ Len(SubDict(p)[x].l) # Len(SubDict(p)[y].l)

SplitChecked ==
    /\ call.fn = "split_lists" /\ call.check_length
    /\ \E p \in Parents : Mismatch(p)

SizeError == ret.msg = "do not have the same size" /\ Mismatch(ret.path)

\* C24: split_lists with check_length=True fails with a length-mismatch error
\* naming the parent path, and returns no tree, whenever some parent mapping
\* contains every key of split_keys and two of those keys hold lists of
\* different lengths, whatever order the keys are visited in.
SplitFailsOnLengthsAsClaimed ==
    SplitChecked => pc = "failed" /\ ret.type = "ValueError" /\ SizeError

\* C24, amended: in that case split_lists fails with a ValueError naming a
\* parent path and returns no tree; the error is the length-mismatch error
\* naming a parent whose lists differ unless some parent containing every
\* key of split_keys holds a split key that is no list, or holds the key
\* new_name, whose error may be raised first.
SplitFailsOnLengths ==
    SplitChecked
    => /\ pc = "failed" /\ ret.type = "ValueError" /\ tree = Nothing
       /\ ret.path \in SplitParents
       /\ \/ SizeError
          \/ /\ ret.msg = "is not a list"
             /\ \E x \in SplitKeySet : SubDict(ret.path)[x].t # "list"
          \/ /\ ret.msg = "already exists at this level"
             /\ call.new_name.key \in DOMAIN SubDict(ret.path)
       /\ (\A p \in SplitParents :
              /\ call.new_name.key \notin DOMAIN SubDict(p)
              /\ \A x \in SplitKeySet : SubDict(p)[x].t = "list")
          => SizeError

\* the doctest's case: two lists of different lengths under one key
SplitFailsOnLengthsWitness ==
    /\ SplitChecked
    /\ src = D(Ka :> D(Ka :> L(<<I(1), I(2)>>) @@ Kb :> L(<<I(1)>>)))
    /\ call.keys = <<Ka, Kb>>
    /\ ret.msg = "do not have the same size" /\ ret.path = <<Ka>>

----------------------------------------------------------------------------
(* Properties of flattennd *)

\* the first segments of k, all but the last n (none when k has at most n)
KeptHead(k, n) == SubSeq(k, 1, IF n >= Len(k) THEN 0 ELSE Len(k) - n)

\* the last n segments of k (all of k when it has at most n)
KeptTail(k, n) == SubSeq(k, (IF n >= Len(k) THEN 0 ELSE Len(k) - n) + 1, Len(k))

\* the flat mapping of levels n holds the leaf pl: under the key k[:-n], at
\* the sub-path k[-n:]
HeldIn(f, pl, n) ==
    \E i \in DOMAIN f :
        /\ f[i][1] = KeptHead(pl[1], n)
        /\ IF KeptTail(pl[1], n) = <<>> THEN f[i][2] = pl[2]
           ELSE /\ PresentIn(f[i][2], KeptTail(pl[1], n))
                /\ ValueAt(f[i][2], KeptTail(pl[1], n)) = pl[2]

\* as many leaves are held as the input has, under keys that differ
HoldsOnly(f, n) ==
    /\ \A i, j \in DOMAIN f : f[i][1] = f[j][1] => i = j
    /\ Cardinality(UNION {{<<f[i][1] \o pl[1], pl[2]>> : pl \in LeafPaths(f[i][2], None, None)}
                          : i \in DOMAIN f}) = Cardinality(SrcLeaves)

FlattenNdDone == call.fn = "flattennd" /\ is_dict_like(src)

RECURSIVE HasEmptyDict(_)
\* some mapping below v, or v, is empty
HasEmptyDict(v) ==
    v.t = "dict" /\ (DOMAIN v.d = {} \/ \E x \in DOMAIN v.d : HasEmptyDict(v.d[x]))

\* no mapping below the root of d is empty
NoEmptyBelow(d) == \A x \in DOMAIN d.d : ~HasEmptyDict(d.d[x])

\* C25: for every tree d of nested mappings and every levels n >= 0,
\* flattennd(d, n) followed by unflatten rebuilds d: every leaf path k of d is
\* held under the key k[:-n] (the empty tuple when k has at most n segments)
\* at sub-path k[-n:], and unflatten(flattennd(d, n)) equals d.
FlattenNdRebuildsAsClaimed ==
    FlattenNdDone
    => /\ pc # "failed"
       /\ \A pl \in SrcLeaves : HeldIn(flat, pl, call.next)
       /\ pc = "unflattened nd" => tree = src

\* C25, amended: the same for every tree d of nested mappings none of which,
\* below the root, is empty.
FlattenNdRebuilds ==
    FlattenNdDone
    => /\ pc # "failed"
       /\ \A pl \in SrcLeaves : HeldIn(flat, pl, call.next)
       /\ HoldsOnly(flat, call.next)
       /\ pc = "unflattened nd" /\ NoEmptyBelow(src) => tree = src

\* a tree with leaves at depths 2 and 3 is rebuilt from two levels
FlattenNdRebuildsWitness ==
    /\ FlattenNdDone
    /\ call.next = 2
    /\ pc = "unflattened nd"
    /\ src = D(Ka :> D(Ka :> D(Ka :> I(1)) @@ Kb :> I(2)))
    /\ Len(flat) = 2
    /\ tree = src

----------------------------------------------------------------------------
(* Properties of the plugin store *)

\* the categories a load of these arguments looks at
Looked(category) ==
    {Categories[i] : i \in {j \in DOMAIN Categories :
                               ~category.some \/ Categories[j] = category.s}}

\* C26: in any sequence of load_plugin_classes, unload_plugin and
\* unload_all_plugins calls, a load with overwrite=False never replaces a
\* plugin already registered under the same name in the same category: the
\* registered instance stays in place and the call returns an error entry for
\* the rejected class.
LoadKeepsRegistered ==
    [][call'.fn = "load_plugin_classes" /\ ~call'.overwrite
       => /\ \A c \in DOMAIN _all_plugins : \A n \in DOMAIN _all_plugins[c] :
                n \in DOMAIN _all_plugins'[c] /\ _all_plugins'[c][n] = _all_plugins[c][n]
          /\ \A i \in DOMAIN call'.classes : \A c \in Looked(call'.category) :
                /\ _plugins_interface[c] \subseteq call'.classes[i].attrs
                /\ call'.classes[i].plugin_name \in DOMAIN _all_plugins[c]
                => \E e \in DOMAIN load_errors' :
                      load_errors'[e] = <<call'.classes[i].name, "is already set for", c>>
      ]_vars

\* class B was rejected as an encoder, where A's instance stays, and loaded
\* as a decoder
LoadKeepsRegisteredWitness ==
    /\ call.fn = "load_plugin_classes" /\ ~call.overwrite
    /\ call.classes = <<ClassB>>
    /\ load_errors = << <<"B", "is already set for", "encoders">> >>
    /\ _all_plugins["encoders"]["x"].class = "A"
    /\ "x" \in DOMAIN _all_plugins["decoders"]
    /\ _all_plugins["decoders"]["x"].class = "B"

----------------------------------------------------------------------------
(* filter_keys and remove_paths with the same keys *)

\* remove_paths(d, ks) for the d and ks that filter_keys was called with
Removed == remove_paths(src, call.keys, FALSE)

\* C27: for every mapping tree d and key list ks (wildcards off),
\* filter_keys(d, ks) and remove_paths(d, ks) split the leaves of d: each leaf
\* path of d appears with its value in exactly one of the two results, and
\* neither result holds a leaf that is not in d.
KeysSplitLeaves ==
    /\ call.fn = "filter_keys" /\ ~call.use_wildcards /\ call.list_of_dicts = None
    /\ is_dict_like(src)
    => /\ pc = "filtered" /\ ~Failed(Removed)
       /\ LeafPaths(tree, None, None) \cup LeafPaths(Removed.val, None, None) = SrcLeaves
       /\ LeafPaths(tree, None, None) \cap LeafPaths(Removed.val, None, None) = {}

\* one leaf goes to each result
KeysSplitLeavesWitness ==
    /\ call.fn = "filter_keys" /\ ~call.use_wildcards /\ call.list_of_dicts = None
    /\ call.keys = <<Ka>>
    /\ src = D(Ka :> I(1) @@ Kb :> D(Kb :> I(2)))
    /\ tree = D(Ka :> I(1))
    /\ Removed.val = D(Kb :> D(Kb :> I(2)))

----------------------------------------------------------------------------
(* Properties of the mock file system *)

\* the children of a folder that bear the same name as another child of it
Twins(self) ==
    {i \in DOMAIN objects[self]._children :
        \E j \in DOMAIN objects[self]._children :
            /\ i # j
            /\ objects[objects[self]._children[i]]._name
                  = objects[objects[self]._children[j]]._name}

\* C29: after any sequence of joinpath, add_child, copy_from, copy_to, mkdir, touch,
\* unlink, rmdir, rename and name assignment, no folder has two children with the
\* same name
UniqueChildNames == \A self \in DOMAIN objects : Twins(self) = {}

\* C30: after any sequence of joinpath, mkdir, touch, unlink and rmdir on a tree in
\* which every existing path lies in an existing directory, every existing path
\* that has a parent has one that exists and is a directory
ExistingLieInDirs ==
    \A self \in DOMAIN objects :
        objects[self]._exists /\ objects[self]._parent # NoParent
            => /\ objects[objects[self]._parent]._exists
               /\ objects[objects[self]._parent]._is_dir

====
